---------------------------- MODULE Spec2Model ----------------------------
(***************************************************************************)
(* Model of the ContextLingo configuration core:                           *)
(*   - the YAML helper (dumpValue / dumpObject / generateConfigYaml,       *)
(*     parseConfigYaml / parseLines / parseValue),                         *)
(*   - deepMergeConfig, and                                                *)
(*   - the App shell's load / auto-save / import handlers.                 *)
(*                                                                         *)
(* Text is a sequence of one-character strings.  A JavaScript value is a   *)
(* tagged record [t |-> tag, v |-> payload]; an object's payload is the    *)
(* sequence of its <<key, value>> entries in insertion order.              *)
(***************************************************************************)
EXTENDS Integers, Sequences, FiniteSets, TLC

VARIABLES
    \* ---- App shell (React state, storage, auto-save timer) ----
    isLoading, autoTranslate, interactionConfig, pageWidgetConfig, ankiConfig,
    scenarios, engines, styles, storage, timer, stale, inflight,
    \* ---- inputs and outputs of the pure functions ----
    phase, input, yaml, parsed, defaultConfig, importedConfig, merged,
    \* ---- the object store the reconciler's arguments and result live in ----
    heap

appVars == <<isLoading, autoTranslate, interactionConfig, pageWidgetConfig,
             ankiConfig, scenarios, engines, styles, storage, timer, stale, inflight>>
pureVars == <<phase, input, yaml, parsed, defaultConfig, importedConfig, merged, heap>>
vars == <<appVars, pureVars>>

----------------------------------------------------------------------------
(* Bounds *)

MaxStrLen == 3
MaxArrLen == 2
MaxLines == 3
MaxInflight == 1

----------------------------------------------------------------------------
(* Characters and JavaScript string primitives *)

SP == " "
NL == "\n"
HASH == "#"
COLON == ":"
DQ == "\""
SQ == "'"
BS == "\\"
DASH == "-"
LBRACK == "["
RBRACK == "]"
COMMA == ","

Digits == {"0", "1", "2", "3", "4", "5", "6", "7", "8", "9"}

\* /\s/ restricted to the whitespace the model's texts contain
IsSpace(c) == c \in {SP, NL}

RECURSIVE Flatten(_)
Flatten(ss) == IF ss = <<>> THEN <<>> ELSE Head(ss) \o Flatten(Tail(ss))

RECURSIVE Join(_, _)
Join(ss, sep) ==
    IF ss = <<>> THEN <<>>
    ELSE IF Len(ss) = 1 THEN ss[1]
    ELSE ss[1] \o sep \o Join(Tail(ss), sep)

\* String.prototype.search(/\S/): 0-based index of the first non-blank, or -1
Search(s) ==
    LET idx == {i \in 1..Len(s) : ~IsSpace(s[i])}
    IN  IF idx = {} THEN -1
        ELSE (CHOOSE i \in idx : \A j \in idx : i <= j) - 1

TrimStart(s) ==
    LET n == Search(s) IN IF n = -1 THEN <<>> ELSE SubSeq(s, n + 1, Len(s))

TrimEnd(s) ==
    LET idx == {i \in 1..Len(s) : ~IsSpace(s[i])}
    IN  IF idx = {} THEN <<>>
        ELSE SubSeq(s, 1, CHOOSE i \in idx : \A j \in idx : j <= i)

Trim(s) == TrimEnd(TrimStart(s))

StartsWith(s, p) == Len(s) >= Len(p) /\ SubSeq(s, 1, Len(p)) = p

EndsWith(s, p) == Len(s) >= Len(p) /\ SubSeq(s, Len(s) - Len(p) + 1, Len(s)) = p

Includes(s, p) == \E i \in 1..(Len(s) - Len(p) + 1) : SubSeq(s, i, i + Len(p) - 1) = p

\* String.prototype.indexOf(c): 0-based, -1 when absent
IndexOf(s, c) ==
    LET idx == {i \in 1..Len(s) : s[i] = c}
    IN  IF idx = {} THEN -1
        ELSE (CHOOSE i \in idx : \A j \in idx : i <= j) - 1

\* String.prototype.slice(1, -1)
Slice1(s) == IF Len(s) <= 2 THEN <<>> ELSE SubSeq(s, 2, Len(s) - 1)

\* String.prototype.split(c)
RECURSIVE Split(_, _)
Split(s, c) ==
    LET k == IndexOf(s, c)
    IN  IF k = -1 THEN <<s>>
        ELSE <<SubSeq(s, 1, k)>> \o Split(SubSeq(s, k + 2, Len(s)), c)

\* ' '.repeat(n)
Spaces(n) == [i \in 1..n |-> SP]

\* value.replace(/"/g, '\\"')
RECURSIVE EscapeQuotes(_)
EscapeQuotes(s) ==
    IF s = <<>> THEN <<>>
    ELSE (IF Head(s) = DQ THEN <<BS, DQ>> ELSE <<Head(s)>>) \o EscapeQuotes(Tail(s))

\* key.replace(/^q|q$/g, '')
StripEnds(s, q) ==
    LET a == IF s # <<>> /\ s[1] = q THEN Tail(s) ELSE s
    IN  IF a # <<>> /\ a[Len(a)] = q THEN SubSeq(a, 1, Len(a) - 1) ELSE a

----------------------------------------------------------------------------
(* JavaScript values *)

Undefined == [t |-> "undefined", v |-> 0]
Null == [t |-> "null", v |-> 0]
Bool(b) == [t |-> "boolean", v |-> b]
Num(n) == [t |-> "number", v |-> n]
Str(s) == [t |-> "string", v |-> s]
Arr(items) == [t |-> "array", v |-> items]
Obj(entries) == [t |-> "object", v |-> entries]
EmptyObj == Obj(<<>>)

IsArray(x) == x.t = "array"
\* typeof x === 'object' && x !== null && !Array.isArray(x)
IsPlainObject(x) == x.t = "object"
\* typeof x === 'object' (true of null and of arrays)
TypeofObject(x) == x.t \in {"object", "array", "null"}
IsNullish(x) == x.t \in {"undefined", "null"}

\* Object.keys(o) of a plain object, in insertion order
Keys(o) == [i \in 1..Len(o.v) |-> o.v[i][1]]
HasKey(o, k) == \E i \in 1..Len(o.v) : o.v[i][1] = k

\* o[k]: property read.  Reading a key of a non-object (number, boolean,
\* string, array) gives undefined for the identifier keys the model uses.
Get(o, k) ==
    IF o.t = "object" /\ HasKey(o, k)
    THEN o.v[CHOOSE i \in 1..Len(o.v) : o.v[i][1] = k][2]
    ELSE Undefined

\* An assignment that leaves a key already present as it is
ObjSetFirst(o, k, x) ==
    IF HasKey(o, k) THEN o ELSE Obj(Append(o.v, <<k, x>>))

\* o[k] = x: assignment keeps the place of an existing key, appends a new one
ObjSet(o, k, x) ==
    IF HasKey(o, k)
    THEN Obj([i \in 1..Len(o.v) |-> IF o.v[i][1] = k THEN <<k, x>> ELSE o.v[i]])
    ELSE Obj(Append(o.v, <<k, x>>))

\* Deep equality: objects compared as maps (entry order ignored)
RECURSIVE DeepEqual(_, _)
DeepEqual(x, y) ==
    IF x.t # y.t THEN FALSE
    ELSE IF x.t = "array"
    THEN Len(x.v) = Len(y.v) /\ \A i \in 1..Len(x.v) : DeepEqual(x.v[i], y.v[i])
    ELSE IF x.t = "object"
    THEN /\ Len(x.v) = Len(y.v)
         /\ \A i \in 1..Len(x.v) :
               HasKey(y, x.v[i][1]) /\ DeepEqual(x.v[i][2], Get(y, x.v[i][1]))
    ELSE x.v = y.v

----------------------------------------------------------------------------
(* Numbers: Number(text) and number.toString() for integers.  The texts of *)
(* the model hold no '.', '+', exponent, radix prefix or "Infinity", so    *)
(* the numeric texts are exactly the optionally negated digit strings and  *)
(* the blank text (Number('') is 0).                                       *)

DigitVal(c) ==
    CASE c = "0" -> 0 [] c = "1" -> 1 [] c = "2" -> 2 [] c = "3" -> 3
      [] c = "4" -> 4 [] c = "5" -> 5 [] c = "6" -> 6 [] c = "7" -> 7
      [] c = "8" -> 8 [] c = "9" -> 9

DigitChar(d) == <<"0", "1", "2", "3", "4", "5", "6", "7", "8", "9">>[d + 1]

AllDigits(s) == s # <<>> /\ \A i \in 1..Len(s) : s[i] \in Digits

RECURSIVE DigitsValue(_)
DigitsValue(s) ==
    IF s = <<>> THEN 0
    ELSE 10 * DigitsValue(SubSeq(s, 1, Len(s) - 1)) + DigitVal(s[Len(s)])

\* !isNaN(Number(val))
IsNumeric(val) ==
    LET s == Trim(val)
    IN  \/ s = <<>>
        \/ AllDigits(s)
        \/ (s[1] = DASH /\ AllDigits(Tail(s)))

\* Number(val), for a numeric val
NumberOf(val) ==
    LET s == Trim(val)
    IN  IF s = <<>> THEN 0
        ELSE IF s[1] = DASH THEN 0 - DigitsValue(Tail(s))
        ELSE DigitsValue(s)

RECURSIVE NatToString(_)
NatToString(n) ==
    IF n < 10 THEN <<DigitChar(n)>>
    ELSE Append(NatToString(n \div 10), DigitChar(n % 10))

\* number.toString()
NumToString(n) == IF n < 0 THEN <<DASH>> \o NatToString(0 - n) ELSE NatToString(n)

----------------------------------------------------------------------------
(* PARSER LOGIC (the YAML helper's parseConfigYaml / parseLines /          *)
(* parseValue)                                                             *)

RECURSIVE parseValue(_)
parseValue(val) ==
    IF val = <<"t", "r", "u", "e">> THEN Bool(TRUE)
    ELSE IF val = <<"f", "a", "l", "s", "e">> THEN Bool(FALSE)
    ELSE IF val = <<"n", "u", "l", "l">> THEN Null
    ELSE IF IsNumeric(val) /\ ~Includes(val, <<DQ>>) /\ ~Includes(val, <<SQ>>) /\ val # <<>>
    THEN Num(NumberOf(val))
    ELSE IF StartsWith(val, <<LBRACK>>) /\ EndsWith(val, <<RBRACK>>)
    THEN LET inner == Slice1(val)
             parts == Split(inner, COMMA)
         IN  IF Trim(inner) = <<>> THEN Arr(<<>>)
             ELSE Arr([i \in 1..Len(parts) |-> parseValue(Trim(parts[i]))])
    ELSE IF \/ (StartsWith(val, <<DQ>>) /\ EndsWith(val, <<DQ>>))
            \/ (StartsWith(val, <<SQ>>) /\ EndsWith(val, <<SQ>>))
    THEN Str(Slice1(val))
    ELSE Str(val)

\* The comment-stripping scan of one raw line: quote-aware truncation at '#'
RECURSIVE StripScan(_, _, _, _)
StripScan(rawLine, i, inQuote, quoteChar) ==
    IF i > Len(rawLine) THEN rawLine
    ELSE LET char == rawLine[i]
             isQ == char \in {DQ, SQ}
             opens == isQ /\ ~inQuote
             closes == isQ /\ inQuote /\ char = quoteChar
                       /\ (i = 1 \/ rawLine[i - 1] # BS)
             inQuote2 == IF opens THEN TRUE ELSE IF closes THEN FALSE ELSE inQuote
             quoteChar2 == IF opens THEN char ELSE quoteChar
         IN  IF char = HASH /\ ~inQuote2 THEN SubSeq(rawLine, 1, i - 1)
             ELSE StripScan(rawLine, i + 1, inQuote2, quoteChar2)

\* A pre-processing that leaves every line as typed
StripCommentNone(rawLine) == rawLine

\* The older helper's blind truncation at the first '#'
StripCommentBlind(rawLine) ==
    LET k == IndexOf(rawLine, HASH)
    IN  IF k = -1 THEN rawLine ELSE SubSeq(rawLine, 1, k)

StripComment(rawLine) == StripScan(rawLine, 1, FALSE, <<>>)

\* yaml.split('\n').map(strip).filter(l => l.trim().length > 0)
PreprocessLines(text) ==
    LET raw == Split(text, NL)
        stripped == [i \in 1..Len(raw) |-> StripComment(raw[i])]
    IN  SelectSeq(stripped, LAMBDA l : Trim(l) # <<>>)

\* A look-ahead that hands back the index it was started from
BlockEndStuck(lines, from, lineIndent) == from - 1

\* The look-ahead loops of parseLines: first index j >= from whose line is
\* not indented deeper than indent (Len(lines) + 1 when there is none)
RECURSIVE BlockEnd(_, _, _)
BlockEnd(lines, from, lineIndent) ==
    IF from > Len(lines) THEN from
    ELSE IF Search(lines[from]) > lineIndent THEN BlockEnd(lines, from + 1, lineIndent)
    ELSE from

\* key cleanup of a "key: value" line
CleanKey(raw) == StripEnds(StripEnds(Trim(raw), DQ), SQ)

RECURSIVE parseLines(_, _)
RECURSIVE ParseLoop(_, _, _, _, _, _)

\* One "- key: value" item: the inline pair re-indented to the dash's column,
\* followed by the deeper-indented lines, parsed as a block at that column
FoldInlineItem(lines, i, j, lineIndent, valPart) ==
    parseLines(<<Spaces(lineIndent) \o valPart>> \o SubSeq(lines, i + 1, j - 1), lineIndent).result

\* A nested block that is null when no line follows the key
NestedBlockNull(blockLines) ==
    IF blockLines # <<>> THEN parseLines(blockLines, Search(blockLines[1])).result ELSE Null

\* The value of a "key:" line with no inline value
NestedBlock(blockLines) ==
    IF blockLines # <<>>
    THEN parseLines(blockLines, Search(blockLines[1])).result
    ELSE EmptyObj

ParseLoop(lines, currentIndent, i, result, isArray, arrayItems) ==
    IF i > Len(lines)
    THEN [result |-> IF isArray THEN Arr(arrayItems) ELSE result, consumed |-> i - 1]
    ELSE
    LET line == lines[i]
        lineIndent == Search(line)
        content == Trim(line)
    IN
    IF lineIndent < currentIndent
    THEN [result |-> IF isArray THEN Arr(arrayItems) ELSE result, consumed |-> i - 1]
    ELSE IF lineIndent > currentIndent
    THEN ParseLoop(lines, currentIndent, i + 1, result, isArray, arrayItems)
    ELSE IF StartsWith(content, <<DASH>>)
    THEN LET valPart == Trim(Tail(content)) IN
         IF valPart # <<>>
         THEN IF Includes(valPart, <<COLON, SP>>)
              THEN LET j == BlockEnd(lines, i + 1, lineIndent)
                   IN  ParseLoop(lines, currentIndent, j, result, TRUE,
                           Append(arrayItems, FoldInlineItem(lines, i, j, lineIndent, valPart)))
              ELSE ParseLoop(lines, currentIndent, i + 1, result, TRUE,
                       Append(arrayItems, parseValue(valPart)))
         ELSE ParseLoop(lines, currentIndent, i + 1, result, TRUE, arrayItems)
    ELSE LET colonIndex == IndexOf(content, COLON) IN
         IF colonIndex # -1
         THEN LET key == CleanKey(SubSeq(content, 1, colonIndex))
                  valStr == Trim(SubSeq(content, colonIndex + 2, Len(content)))
              IN  IF valStr # <<>>
                  THEN ParseLoop(lines, currentIndent, i + 1,
                           ObjSet(result, key, parseValue(valStr)), isArray, arrayItems)
                  ELSE LET j == BlockEnd(lines, i + 1, lineIndent)
                       IN  ParseLoop(lines, currentIndent, j,
                               ObjSet(result, key, NestedBlock(SubSeq(lines, i + 1, j - 1))),
                               isArray, arrayItems)
         ELSE ParseLoop(lines, currentIndent, i + 1, result, isArray, arrayItems)

parseLines(lines, currentIndent) ==
    ParseLoop(lines, currentIndent, 1, EmptyObj, FALSE, <<>>)

parseConfigYaml(text) == parseLines(PreprocessLines(text), 0).result

\* The older helper (utils/yaml-helper.ts): its comment-stripping loop assigns
\* to the loop's own `line`, so no line is changed; blank lines and lines that
\* start with '#' are dropped.  Its parseLines differs from the one above only
\* in single-quoted keys and empty value tokens, which the lines given to it
\* here do not have.
PreprocessLinesOld(text) ==
    SelectSeq(Split(text, NL),
              LAMBDA l : Trim(l) # <<>> /\ ~StartsWith(Trim(l), <<HASH>>))

parseConfigYamlOld(text) == parseLines(PreprocessLinesOld(text), 0).result

----------------------------------------------------------------------------
(* GENERATOR LOGIC (dumpValue / dumpObject / generateConfigYaml)           *)

\* Key names
K_enabled == <<"e", "n", "a", "b", "l", "e", "d">>
K_ttsSpeed == <<"t", "t", "s", "S", "p", "e", "e", "d">>
K_blacklist == <<"b", "l", "a", "c", "k", "l", "i", "s", "t">>
K_color == <<"c", "o", "l", "o", "r">>
K_isBold == <<"i", "s", "B", "o", "l", "d">>
K_opacity == <<"o", "p", "a", "c", "i", "t", "y">>
K_id == <<"i", "d">>
K_name == <<"n", "a", "m", "e">>
K_isActive == <<"i", "s", "A", "c", "t", "i", "v", "e">>
K_type == <<"t", "y", "p", "e">>
K_showTags == <<"s", "h", "o", "w", "T", "a", "g", "s">>
K_url == <<"u", "r", "l">>
K_autoSync == <<"a", "u", "t", "o", "S", "y", "n", "c">>
K_bubblePosition == <<"b", "u", "b", "b", "l", "e", "P", "o", "s", "i", "t", "i", "o", "n">>
K_dismissDelay == <<"d", "i", "s", "m", "i", "s", "s", "D", "e", "l", "a", "y">>

K_general == <<"g", "e", "n", "e", "r", "a", "l">>
K_styles == <<"s", "t", "y", "l", "e", "s">>
K_scenarios == <<"s", "c", "e", "n", "a", "r", "i", "o", "s">>
K_interaction == <<"i", "n", "t", "e", "r", "a", "c", "t", "i", "o", "n">>
K_pageWidget == <<"p", "a", "g", "e", "W", "i", "d", "g", "e", "t">>
K_engines == <<"e", "n", "g", "i", "n", "e", "s">>
K_anki == <<"a", "n", "k", "i">>

\* FieldMetadata rows.  The comment and option texts stand for the source's
\* (non-ASCII) wording; like the source's they hold no quote character.
Meta(key, hasOptions) ==
    [key |-> key, comment |-> <<"c">>,
     options |-> IF hasOptions THEN <<"o", " ", "|", " ", "p">> ELSE <<>>]

\* The rows of each table for the keys the model's documents use
generalFields == <<Meta(K_enabled, TRUE), Meta(K_ttsSpeed, TRUE), Meta(K_blacklist, FALSE)>>
styleFields == <<Meta(K_color, FALSE), Meta(K_isBold, TRUE), Meta(K_opacity, FALSE)>>
scenarioFields == <<Meta(K_id, FALSE), Meta(K_name, FALSE), Meta(K_isActive, TRUE)>>
interactionFields == <<Meta(K_bubblePosition, TRUE), Meta(K_dismissDelay, FALSE)>>
pageWidgetFields == <<Meta(K_enabled, TRUE), Meta(K_showTags, TRUE)>>
engineFields == <<Meta(K_id, FALSE), Meta(K_name, FALSE), Meta(K_type, TRUE)>>
ankiFields == <<Meta(K_enabled, TRUE), Meta(K_url, FALSE), Meta(K_autoSync, TRUE)>>

indent(level) == Spaces(2 * level)

\* Object.keys(x) paired with x[key], for any x that Object.keys accepts
ObjectEntries(x) ==
    IF x.t = "object" THEN x.v
    ELSE IF x.t = "array" THEN [i \in 1..Len(x.v) |-> <<NatToString(i - 1), x.v[i]>>]
    ELSE IF x.t = "string" THEN [i \in 1..Len(x.v) |-> <<NatToString(i - 1), Str(<<x.v[i]>>)>>]
    ELSE <<>>

\* An element of a primitive array inside `[...]`
PrimitiveElement(x) ==
    IF x.t = "string" THEN <<DQ>> \o x.v \o <<DQ>>
    ELSE IF x.t = "number" THEN NumToString(x.v)
    ELSE IF x.t = "boolean" THEN (IF x.v THEN <<"t", "r", "u", "e">> ELSE <<"f", "a", "l", "s", "e">>)
    ELSE <<>>

\* dumpValue's string branch: quoted only when the text holds \n, ':' or '#'
dumpString(s) ==
    IF Includes(s, <<NL>>) \/ Includes(s, <<COLON>>) \/ Includes(s, <<HASH>>)
    THEN <<DQ>> \o EscapeQuotes(s) \o <<DQ>>
    ELSE IF s = <<>> THEN <<DQ, DQ>> ELSE s

RECURSIVE dumpValue(_, _)
RECURSIVE dumpObject(_, _, _, _)

dumpValue(val, level) ==
    IF IsNullish(val) THEN <<"n", "u", "l", "l">>
    ELSE IF val.t = "boolean"
    THEN (IF val.v THEN <<"t", "r", "u", "e">> ELSE <<"f", "a", "l", "s", "e">>)
    ELSE IF val.t = "number" THEN NumToString(val.v)
    ELSE IF val.t = "string" THEN dumpString(val.v)
    ELSE IF val.t = "array"
    THEN IF val.v = <<>> THEN <<LBRACK, RBRACK>>
         ELSE IF \A i \in 1..Len(val.v) : ~TypeofObject(val.v[i])
         THEN <<LBRACK>>
              \o Join([i \in 1..Len(val.v) |-> PrimitiveElement(val.v[i])], <<COMMA, SP>>)
              \o <<RBRACK>>
         ELSE <<NL>> \o Flatten([i \in 1..Len(val.v) |->
                  indent(level) \o <<DASH, SP>>
                  \o TrimStart(dumpObject(val.v[i], level + 1, <<>>, TRUE))])
    ELSE <<NL>> \o dumpObject(val, level + 1, <<>>, FALSE)

\* The text dumpObject adds for the entry at position index
dumpEntry(entry, index, level, metadata, isListItem) ==
    LET key == entry[1]
        metas == SelectSeq(metadata, LAMBDA m : m.key = key)
        commentText ==
            IF metas = <<>> THEN <<>>
            ELSE <<NL>> \o indent(level) \o <<HASH, SP>> \o metas[1].comment
                 \o (IF metas[1].options # <<>>
                     THEN <<SP, "(", "v", COLON, SP>> \o metas[1].options \o <<")">>
                     ELSE <<>>)
                 \o <<NL>>
        prefix == IF isListItem /\ index = 1 THEN <<>> ELSE indent(level)
    IN  commentText \o prefix \o key \o <<COLON, SP>> \o dumpValue(entry[2], level) \o <<NL>>

dumpObject(obj, level, metadata, isListItem) ==
    LET entries == ObjectEntries(obj)
    IN  Flatten([i \in 1..Len(entries) |-> dumpEntry(entries[i], i, level, metadata, isListItem)])

\* Object.keys(null) raises a TypeError: dumpValue raises on an array that
\* holds an object-typed element and a null one (or a value that raises)
RECURSIVE DumpRaises(_)
DumpRaises(val) ==
    IF val.t = "array"
    THEN /\ \E i \in 1..Len(val.v) : TypeofObject(val.v[i])
         /\ \E i \in 1..Len(val.v) :
               \/ IsNullish(val.v[i])
               \/ \E k \in 1..Len(ObjectEntries(val.v[i])) :
                     DumpRaises(ObjectEntries(val.v[i])[k][2])
    ELSE IF val.t = "object"
    THEN \E k \in 1..Len(val.v) : DumpRaises(val.v[k][2])
    ELSE FALSE

\* The header and the section banners are comment lines only
Header == <<HASH, SP, "t", NL, HASH, SP, "d", COLON, SP, "1", NL>>
Banner(n) == <<NL, HASH, SP, "=", NL, HASH, SP>> \o NatToString(n) \o <<NL, HASH, SP, "=", NL>>

\* One "  - ..." record line group of scenarios / engines
dumpRecord(rec, metadata) == <<SP, SP, DASH, SP>> \o TrimStart(dumpObject(rec, 2, metadata, TRUE))

\* One category block of the styles section
dumpStyleCategory(entry) ==
    <<SP, SP, HASH, SP, "k", COLON, SP>> \o entry[1] \o <<NL>>
    \o <<SP, SP, DQ>> \o entry[1] \o <<DQ, COLON, NL>>
    \o dumpObject(entry[2], 2, styleFields, FALSE)

generateConfigYaml(fullConfig) ==
    LET general == Get(fullConfig, K_general)
        stylesV == Get(fullConfig, K_styles)
        scenariosV == Get(fullConfig, K_scenarios)
        interaction == Get(fullConfig, K_interaction)
        pageWidget == Get(fullConfig, K_pageWidget)
        enginesV == Get(fullConfig, K_engines)
        anki == Get(fullConfig, K_anki)
    IN  Header
        \o Banner(1) \o K_general \o <<COLON, NL>> \o dumpObject(general, 1, generalFields, FALSE)
        \o Banner(2) \o K_styles \o <<COLON, NL>>
        \o Flatten([i \in 1..Len(stylesV.v) |-> dumpStyleCategory(stylesV.v[i])])
        \o Banner(3) \o K_scenarios \o <<COLON, NL>>
        \o Flatten([i \in 1..Len(scenariosV.v) |-> dumpRecord(scenariosV.v[i], scenarioFields)])
        \o Banner(4) \o K_interaction \o <<COLON, NL>>
        \o dumpObject(interaction, 1, interactionFields, FALSE)
        \o Banner(5) \o K_pageWidget \o <<COLON, NL>>
        \o dumpObject(pageWidget, 1, pageWidgetFields, FALSE)
        \o Banner(6) \o K_engines \o <<COLON, NL>>
        \o Flatten([i \in 1..Len(enginesV.v) |-> dumpRecord(enginesV.v[i], engineFields)])
        \o Banner(7) \o K_anki \o <<COLON, NL>> \o dumpObject(anki, 1, ankiFields, FALSE)

----------------------------------------------------------------------------
(* Deep merge (App.tsx, deepMergeConfig)                                   *)

RECURSIVE deepMergeConfig(_, _)

\* The same with the nested-object recursion dropped (shallow merge)
MergeKeyShallow(defVal, impVal) ==
    IF impVal # Undefined THEN impVal ELSE defVal

\* A forEach body that joins an imported array to the default's
MergeKeyConcat(defVal, impVal) ==
    IF IsPlainObject(defVal) THEN deepMergeConfig(defVal, impVal)
    ELSE IF IsArray(defVal) /\ IsArray(impVal) THEN Arr(defVal.v \o impVal.v)
    ELSE IF impVal # Undefined THEN impVal
    ELSE defVal

\* The value the forEach body leaves in result[key]
MergeKey(defVal, impVal) ==
    IF IsPlainObject(defVal) THEN deepMergeConfig(defVal, impVal)
    ELSE IF impVal # Undefined THEN impVal
    ELSE defVal

\* The object branch: { ...defaultConfig } with each default key revisited
MergeObject(defaultCfg, importedCfg) ==
    Obj([i \in 1..Len(defaultCfg.v) |->
            <<defaultCfg.v[i][1],
              MergeKey(defaultCfg.v[i][2], Get(importedCfg, defaultCfg.v[i][1]))>>])

\* An array result that appends the imported elements to the default's
MergeArraySplice(defaultCfg, importedCfg) ==
    IF IsArray(importedCfg) THEN Arr(defaultCfg.v \o importedCfg.v) ELSE defaultCfg

\* The array branch: the imported array if it has data, else the default
MergeArray(defaultCfg, importedCfg) ==
    IF IsArray(importedCfg) /\ Len(importedCfg.v) > 0 THEN importedCfg ELSE defaultCfg

deepMergeConfig(defaultCfg, importedCfg) ==
    IF IsNullish(importedCfg) THEN defaultCfg
    ELSE IF IsArray(defaultCfg) THEN MergeArray(defaultCfg, importedCfg)
    ELSE IF IsPlainObject(defaultCfg) THEN MergeObject(defaultCfg, importedCfg)
    ELSE importedCfg

----------------------------------------------------------------------------
(* Idle values of the variables a specification does not use               *)

AppIdle ==
    /\ isLoading = TRUE /\ autoTranslate = Undefined /\ interactionConfig = Undefined
    /\ pageWidgetConfig = Undefined /\ ankiConfig = Undefined /\ scenarios = Undefined
    /\ engines = Undefined /\ styles = Undefined /\ storage = Undefined
    /\ timer = Undefined /\ stale = FALSE /\ inflight = <<>>

\* All sequences over S of length 0..n
SeqsUpTo(S, n) == UNION {[1..k -> S] : k \in 0..n}

----------------------------------------------------------------------------
(* SpecMerge: deepMergeConfig applied to bounded (default, imported) pairs *)

K_a == <<"a">>
K_b == <<"b">>
K_c == <<"c">>
K_x == <<"x">>

ArrElems == {Num(1), Num(9)}
Arrays == {Arr(s) : s \in SeqsUpTo(ArrElems, MaxArrLen)}
Atoms == {Null, Bool(TRUE), Num(1), Str(<<"s">>)}
Flat == Atoms \cup Arrays
NestedObjs == {EmptyObj} \cup {Obj(<< <<K_c, v>> >>) : v \in Flat}
FieldVals == Flat \cup NestedObjs

\* An entry list with the entry left out when its value is Undefined
Entries(pairs) == SelectSeq(pairs, LAMBDA e : e[2] # Undefined)

\* defaults: an object {a, b?} (a of every kind; b a default-only key), or a
\* top-level scalar / array
MergeDefaults ==
    {Obj(Entries(<< <<K_a, va>>, <<K_b, vb>> >>)) :
        va \in FieldVals,
        vb \in {Undefined, Num(2), Arr(<<Num(2)>>), Obj(<< <<K_c, Num(2)>> >>)}}
    \cup Flat

\* imports: a partial object {a?, x?} (x an extra key), or any other value
MergeImports ==
    {Obj(Entries(<< <<K_a, va>>, <<K_x, vx>> >>)) :
        va \in FieldVals \cup {Undefined},
        vx \in {Undefined, Num(7), Obj(<< <<K_c, Num(7)>> >>)}}
    \cup Flat \cup {Undefined}

InitMerge ==
    /\ AppIdle /\ heap = <<>>
    /\ phase = "input"
    /\ defaultConfig \in MergeDefaults
    /\ importedConfig \in MergeImports
    /\ merged = Undefined
    /\ input = Undefined /\ yaml = <<>> /\ parsed = Undefined

DeepMerge ==
    /\ phase = "input"
    /\ merged' = deepMergeConfig(defaultConfig, importedConfig)
    /\ phase' = "merged"
    /\ UNCHANGED <<appVars, heap, input, yaml, parsed, defaultConfig, importedConfig>>

\* the reconciler applied again to its own result, with the same default
DeepMergeAgain ==
    /\ phase = "merged"
    /\ importedConfig' = merged
    /\ merged' = deepMergeConfig(defaultConfig, merged)
    /\ phase' = "mergedAgain"
    /\ UNCHANGED <<appVars, heap, input, yaml, parsed, defaultConfig>>

\* the default reconciled with itself
DeepMergeSelf ==
    /\ phase = "input"
    /\ importedConfig' = defaultConfig
    /\ merged' = deepMergeConfig(defaultConfig, defaultConfig)
    /\ phase' = "mergedSelf"
    /\ UNCHANGED <<appVars, heap, input, yaml, parsed, defaultConfig>>

NextMerge == DeepMerge \/ DeepMergeAgain \/ DeepMergeSelf

SpecMerge == InitMerge /\ [][NextMerge]_vars

\* every key of d is a key of m, recursively through d's nested objects
RECURSIVE KeysKept(_, _)
KeysKept(d, m) ==
    /\ IsPlainObject(m)
    /\ \A i \in 1..Len(d.v) :
          /\ HasKey(m, d.v[i][1])
          /\ IsPlainObject(d.v[i][2]) => KeysKept(d.v[i][2], Get(m, d.v[i][1]))

\* C2 (merge totality): for an object default and any imported value, every
\* key of the default is a key of the merged result, and likewise inside every
\* nested non-array object of the default.
C2_MergeTotality ==
    (phase = "merged" /\ IsPlainObject(defaultConfig)) => KeysKept(defaultConfig, merged)

\* C2 witness: the default's nested object a = {c: ...} met an imported a that
\* is a string, and the merged a still has key c
C2_Witness ==
    /\ phase = "merged"
    /\ IsPlainObject(defaultConfig)
    /\ IsPlainObject(Get(defaultConfig, K_a))
    /\ HasKey(Get(defaultConfig, K_a), K_c)
    /\ HasKey(defaultConfig, K_b)
    /\ IsPlainObject(importedConfig)
    /\ Get(importedConfig, K_a) = Str(<<"s">>)
    /\ HasKey(Get(merged, K_a), K_c)
    /\ HasKey(merged, K_b)

\* C3 (array atomicity), as claimed: when default.a is a non-empty array and
\* imported.a is an array, merged.a is default.a for an empty imported.a and
\* imported.a otherwise.
C3_ArrayAtomicity ==
    (/\ phase = "merged"
     /\ IsPlainObject(defaultConfig) /\ IsPlainObject(importedConfig)
     /\ IsArray(Get(defaultConfig, K_a)) /\ Get(defaultConfig, K_a).v # <<>>
     /\ IsArray(Get(importedConfig, K_a)))
    => Get(merged, K_a) = IF Get(importedConfig, K_a).v = <<>>
                          THEN Get(defaultConfig, K_a)
                          ELSE Get(importedConfig, K_a)

\* C9 (extra keys preserved), as claimed: a key of the imported object that
\* the default object lacks is in the merged result with the imported value.
C9_ExtraKeysPreserved ==
    (phase = "merged" /\ IsPlainObject(defaultConfig) /\ IsPlainObject(importedConfig))
    => \A i \in 1..Len(importedConfig.v) :
          ~HasKey(defaultConfig, importedConfig.v[i][1])
          => /\ HasKey(merged, importedConfig.v[i][1])
             /\ Get(merged, importedConfig.v[i][1]) = importedConfig.v[i][2]

\* C10 (null is missing), as claimed: where the default holds a non-null
\* value under k and the imported object holds null under k, the merged
\* result holds the default's value under k.
C10_NullIsMissing ==
    (phase = "merged" /\ IsPlainObject(defaultConfig) /\ IsPlainObject(importedConfig))
    => \A i \in 1..Len(defaultConfig.v) :
          (/\ defaultConfig.v[i][2] # Null
           /\ HasKey(importedConfig, defaultConfig.v[i][1])
           /\ Get(importedConfig, defaultConfig.v[i][1]) = Null)
          => Get(merged, defaultConfig.v[i][1]) = defaultConfig.v[i][2]

----------------------------------------------------------------------------
(* SpecCodec: one string written as a field value and read back.  The      *)
(* field is written either by the dumper (DumpField) or by hand as a       *)
(* double-quoted value (TypeQuoted), then parsed (ParseField).             *)

K_k == <<"k">>

\* Ordinary characters plus the ones that collide with structural tokens
Alphabet == {"a", HASH, COLON, DQ, SQ, NL, BS, SP}

CodecStrings == {Str(s) : s \in SeqsUpTo(Alphabet, MaxStrLen)}

InitCodec ==
    /\ AppIdle /\ heap = <<>>
    /\ phase = "input"
    /\ input \in CodecStrings
    /\ yaml = <<>> /\ parsed = Undefined
    /\ defaultConfig = Undefined /\ importedConfig = Undefined /\ merged = Undefined

\* dumpObject({k: input}, 0): the line `k: <dumpValue(input)>`
DumpField ==
    /\ phase = "input"
    /\ yaml' = dumpObject(Obj(<< <<K_k, input>> >>), 0, <<>>, FALSE)
    /\ phase' = "dumped"
    /\ UNCHANGED <<appVars, heap, input, parsed, defaultConfig, importedConfig, merged>>

\* a hand-written line `k: "<input>"`
TypeQuoted ==
    /\ phase = "input"
    /\ ~Includes(input.v, <<NL>>)
    /\ yaml' = K_k \o <<COLON, SP, DQ>> \o input.v \o <<DQ, NL>>
    /\ phase' = "typed"
    /\ UNCHANGED <<appVars, heap, input, parsed, defaultConfig, importedConfig, merged>>

ParseField ==
    /\ phase \in {"dumped", "typed"}
    /\ parsed' = parseConfigYaml(yaml)
    /\ phase' = IF phase = "dumped" THEN "dumpedParsed" ELSE "typedParsed"
    /\ UNCHANGED <<appVars, heap, input, yaml, defaultConfig, importedConfig, merged>>

\* the typed line read by the older helper
ParseFieldOld ==
    /\ phase = "typed"
    /\ parsed' = parseConfigYamlOld(yaml)
    /\ phase' = "typedParsedOld"
    /\ UNCHANGED <<appVars, heap, input, yaml, defaultConfig, importedConfig, merged>>

NextCodec == DumpField \/ TypeQuoted \/ ParseField \/ ParseFieldOld

SpecCodec == InitCodec /\ [][NextCodec]_vars

\* C4 (string safety), as claimed: a string written with dumpValue as a
\* field value and read back by the parser is the same string.
C4_StringSafety ==
    phase = "dumpedParsed" => parsed = Obj(<< <<K_k, input>> >>)

\* every double quote of s is preceded by a backslash
QuotesEscaped(s) == \A i \in 1..Len(s) : s[i] = DQ => (i > 1 /\ s[i - 1] = BS)

\* C6 (comment immunity): a line `k: "v"` whose double-quoted v holds at
\* least one '#' (any double quote inside v being backslash-escaped) parses
\* to {k: v} with v complete, in the current helper and in the older one.
C6_CommentImmunity ==
    (phase \in {"typedParsed", "typedParsedOld"} /\ Includes(input.v, <<HASH>>) /\ QuotesEscaped(input.v))
    => parsed = Obj(<< <<K_k, input>> >>)

\* C6 witness: a value with a '#' before other text was read back whole
C6_Witness ==
    /\ phase = "typedParsed"
    /\ Len(input.v) >= 2
    /\ input.v[1] = HASH
    /\ parsed = Obj(<< <<K_k, input>> >>)

----------------------------------------------------------------------------
(* SpecParse: documents typed line by line, then parsed.  `input` keeps    *)
(* the typed lines as [level, body] descriptors.                           *)

Levels == {0, 1, 2}
Bodies == {"key", "pair", "item", "scalar", "dash"}

\* `a:`   `k: "s"`   `- a: 1`   `- 7`   `-`
BodyText(body) ==
    CASE body = "key" -> K_a \o <<COLON>>
      [] body = "pair" -> K_k \o <<COLON, SP, DQ, "s", DQ>>
      [] body = "item" -> <<DASH, SP>> \o K_a \o <<COLON, SP, "1">>
      [] body = "scalar" -> <<DASH, SP, "7">>
      [] body = "dash" -> <<DASH>>

InitParse ==
    /\ AppIdle /\ heap = <<>>
    /\ phase = "typing"
    /\ input = <<>> /\ yaml = <<>> /\ parsed = Undefined
    /\ defaultConfig = Undefined /\ importedConfig = Undefined /\ merged = Undefined

TypeLine(level, body) ==
    /\ phase = "typing"
    /\ Len(input) < MaxLines
    /\ input' = Append(input, [level |-> level, body |-> body])
    /\ yaml' = yaml \o indent(level) \o BodyText(body) \o <<NL>>
    /\ UNCHANGED <<appVars, heap, phase, parsed, defaultConfig, importedConfig, merged>>

ParseText ==
    /\ phase = "typing"
    /\ parsed' = parseConfigYaml(yaml)
    /\ phase' = "parsed"
    /\ UNCHANGED <<appVars, heap, input, yaml, defaultConfig, importedConfig, merged>>

NextParse ==
    \/ \E level \in Levels, body \in Bodies : TypeLine(level, body)
    \/ ParseText

SpecParse == InitParse /\ [][NextParse]_vars

\* ---- the document a list of line descriptors is meant to denote ----

\* a key's block of inline records: line 1 is `a:` at level 0, line 2 a
\* `- a: 1` item at level 1, every further line an item at level 1 or a
\* sibling field `k: "s"` at level 2
IsRecordList(d) ==
    /\ Len(d) >= 2
    /\ d[1] = [level |-> 0, body |-> "key"]
    /\ d[2] = [level |-> 1, body |-> "item"]
    /\ \A i \in 3..Len(d) : d[i] \in {[level |-> 1, body |-> "item"],
                                      [level |-> 2, body |-> "pair"]}

\* one record per dash, each with the inline pair and its sibling fields
RECURSIVE FoldedRecords(_, _)
FoldedRecords(d, i) ==
    IF i > Len(d) THEN <<>>
    ELSE IF d[i].body = "item"
    THEN LET hasSibling == i < Len(d) /\ d[i + 1].body = "pair"
         IN  <<Obj(<< <<K_a, Num(1)>> >>
                   \o (IF hasSibling THEN << <<K_k, Str(<<"s">>)>> >> ELSE <<>>))>>
             \o FoldedRecords(d, i + 1)
    ELSE FoldedRecords(d, i + 1)

\* C5 (inline record folding), as claimed: a key whose block is a list of
\* `- k1: v1` items with deeper-indented sibling fields parses to an array
\* with one record per dash, each holding the inline pair and its siblings.
C5_InlineRecordFolding ==
    (phase = "parsed" /\ IsRecordList(input))
    => parsed = Obj(<< <<K_a, Arr(FoldedRecords(input, 2))>> >>)

\* a document of nested maps: key lines only, indentation growing by one
\* level and only under a `key:` line
IsMapDoc(d) ==
    /\ d # <<>>
    /\ \A i \in 1..Len(d) : d[i].body \in {"key", "pair"}
    /\ d[1].level = 0
    /\ \A i \in 2..Len(d) :
          /\ d[i].level <= d[i - 1].level + 1
          /\ d[i].level = d[i - 1].level + 1 => d[i - 1].body = "key"

KeyOfLine(l) == IF l.body = "key" THEN K_a ELSE K_k

\* the line that opens the block line i belongs to (0 at top level)
ParentOf(d, i) ==
    LET above == {j \in 1..(i - 1) : d[j].level < d[i].level}
    IN  IF above = {} THEN 0 ELSE CHOOSE j \in above : \A h \in above : h <= j

RECURSIVE PathOf(_, _)
PathOf(d, i) ==
    IF ParentOf(d, i) = 0 THEN <<KeyOfLine(d[i])>>
    ELSE Append(PathOf(d, ParentOf(d, i)), KeyOfLine(d[i]))

UniquePaths(d) == \A i, j \in 1..Len(d) : i # j => PathOf(d, i) # PathOf(d, j)

\* a `key:` line with no deeper-indented line after it
Childless(d, i) ==
    d[i].body = "key" /\ (i = Len(d) \/ d[i + 1].level <= d[i].level)

RECURSIVE Lookup(_, _)
Lookup(v, path) ==
    IF path = <<>> THEN v ELSE Lookup(Get(v, Head(path)), Tail(path))

\* C7 (empty nested block): in a document of nested maps whose keys are
\* unique within each block, every `key:` line with no inline value and no
\* deeper-indented follower parses to an empty object under that key, at
\* every nesting depth.
C7_EmptyNestedBlock ==
    (phase = "parsed" /\ IsMapDoc(input) /\ UniquePaths(input))
    => \A i \in 1..Len(input) :
          Childless(input, i) => Lookup(parsed, PathOf(input, i)) = EmptyObj

\* C7 witness: a childless `a:` one level down, with a sibling after it
C7_Witness ==
    /\ phase = "parsed"
    /\ input = << [level |-> 0, body |-> "key"], [level |-> 1, body |-> "key"],
                  [level |-> 1, body |-> "pair"] >>
    /\ parsed = Obj(<< <<K_a, Obj(<< <<K_a, EmptyObj>>, <<K_k, Str(<<"s">>)>> >>)>> >>)

----------------------------------------------------------------------------
(* SpecRoundTrip: a ConfigDocument exported with generateConfigYaml, read  *)
(* back with parseConfigYaml and reconciled against itself.                *)

K_y == <<"y">>
K_p == <<"p">>
K_q == <<"q">>
K_known == <<"k", "n", "o", "w", "n">>

\* values of the field general.x, one of every kind
RoundTripVals ==
    { Null, Bool(FALSE), Num(1), Num(-12),
      Str(<<"s">>), Str(<<>>), Str(<<"a", COLON>>), Str(<<"t", "r", "u", "e">>),
      Str(<<"1", "2">>), Str(<<DQ, HASH>>), Str(<<"a", NL, "a">>),
      Arr(<<>>), Arr(<<Str(<<"a">>), Num(3)>>),
      Obj(<< <<K_y, Num(1)>> >>), EmptyObj,
      Arr(<<Obj(<< <<K_p, Num(1)>>, <<K_q, Num(2)>> >>)>>) }

RoundTripScenarios ==
    { Arr(<<>>),
      Arr(<<Obj(<< <<K_x, Num(5)>> >>)>>),
      Arr(<<Obj(<< <<K_x, Num(5)>>, <<K_y, Num(6)>> >>)>>),
      Arr(<<Obj(<< <<K_id, Num(1)>>, <<K_name, Num(2)>> >>)>>) }

RoundTripStyles ==
    { EmptyObj,
      Obj(<< <<K_known, Obj(<< <<K_color, Str(<<HASH, "f">>)>>, <<K_isBold, Bool(TRUE)>> >>)>> >>) }

RoundTripDocs ==
    { Obj(<< <<K_general, Obj(<< <<K_enabled, Bool(TRUE)>>, <<K_x, vx>> >>)>>,
             <<K_styles, sty>>,
             <<K_scenarios, scn>>,
             <<K_interaction, Obj(<< <<K_dismissDelay, Num(3)>> >>)>>,
             <<K_pageWidget, Obj(<< <<K_showTags, Bool(FALSE)>> >>)>>,
             <<K_engines, Arr(<<Obj(<< <<K_x, Num(5)>> >>)>>)>>,
             <<K_anki, Obj(<< <<K_url, Str(<<"h", COLON, "8">>)>> >>)>> >>) :
        vx \in RoundTripVals, sty \in RoundTripStyles, scn \in RoundTripScenarios }

InitRoundTrip ==
    /\ AppIdle /\ heap = <<>>
    /\ phase = "input"
    /\ input \in RoundTripDocs
    /\ yaml = <<>> /\ parsed = Undefined
    /\ defaultConfig = Undefined /\ importedConfig = Undefined /\ merged = Undefined

ExportConfig ==
    /\ phase = "input"
    /\ ~DumpRaises(input)
    /\ yaml' = generateConfigYaml(input)
    /\ phase' = "dumped"
    /\ UNCHANGED <<appVars, heap, input, parsed, defaultConfig, importedConfig, merged>>

ParseExport ==
    /\ phase = "dumped"
    /\ parsed' = parseConfigYaml(yaml)
    /\ phase' = "parsed"
    /\ UNCHANGED <<appVars, heap, input, yaml, defaultConfig, importedConfig, merged>>

Reconcile ==
    /\ phase = "parsed"
    /\ defaultConfig' = input
    /\ importedConfig' = parsed
    /\ merged' = deepMergeConfig(input, parsed)
    /\ phase' = "merged"
    /\ UNCHANGED <<appVars, heap, input, yaml, parsed>>

NextRoundTrip == ExportConfig \/ ParseExport \/ Reconcile

SpecRoundTrip == InitRoundTrip /\ [][NextRoundTrip]_vars

\* C1 (round trip), as claimed: reconciling a document D with the parse of
\* its own export gives a value deep-equal to D.
C1_RoundTrip ==
    phase = "merged" => DeepEqual(merged, input)

----------------------------------------------------------------------------
(* The App shell: React state, the persistent store, the auto-save effect  *)
(* and the configuration import.  The defaults registry (./constants) is   *)
(* represented by small values of the right shapes.                        *)

K_want == <<"w", "a", "n", "t">>
K_mine == <<"m", "i", "n", "e">>
K_w == <<"w">>
K_originalText == <<"o", "r", "i", "g", "i", "n", "a", "l", "T", "e", "x", "t">>

DEFAULT_AUTO_TRANSLATE ==
    Obj(<< <<K_enabled, Bool(TRUE)>>, <<K_ttsSpeed, Num(1)>>, <<K_blacklist, Arr(<<>>)>> >>)
DEFAULT_WORD_INTERACTION == Obj(<< <<K_dismissDelay, Num(3)>> >>)
DEFAULT_PAGE_WIDGET == Obj(<< <<K_showTags, Bool(TRUE)>> >>)
DEFAULT_ANKI_CONFIG ==
    Obj(<< <<K_url, Str(<<"h", COLON, "8">>)>>, <<K_autoSync, Bool(FALSE)>> >>)
DEFAULT_STYLE ==
    Obj(<< <<K_color, Str(<<HASH, "f">>)>>, <<K_isBold, Bool(FALSE)>>,
           <<K_originalText, Obj(<< <<K_enabled, Bool(TRUE)>> >>)>> >>)
DEFAULT_STYLES ==
    Obj(<< <<K_known, DEFAULT_STYLE>>,
           <<K_want, ObjSet(DEFAULT_STYLE, K_isBold, Bool(TRUE))>> >>)
INITIAL_SCENARIOS == Arr(<<Obj(<< <<K_id, Num(1)>>, <<K_isActive, Bool(TRUE)>> >>)>>)
INITIAL_ENGINES == Arr(<<Obj(<< <<K_id, Num(2)>>, <<K_type, Str(<<"a", "i">>)>> >>)>>)

\* JavaScript truthiness: if (x)
Truthy(x) ==
    ~(\/ IsNullish(x)
      \/ x = Bool(FALSE)
      \/ x = Num(0)
      \/ x = Str(<<>>))

\* the values the auto-save effect's closure holds
Snapshot(au, inter, pw, ank, scn, eng, sty) ==
    [autoTranslateConfig |-> au, interactionConfig |-> inter, pageWidgetConfig |-> pw,
     ankiConfig |-> ank, scenarios |-> scn, engines |-> eng, styles |-> sty]

\* what the store may hold when the page opens: current-schema values, or
\* values written by an older release
StoredStates ==
    { Snapshot(DEFAULT_AUTO_TRANSLATE, DEFAULT_WORD_INTERACTION, DEFAULT_PAGE_WIDGET,
               ank, scn, INITIAL_ENGINES, sty) :
        ank \in {DEFAULT_ANKI_CONFIG, Obj(<< <<K_url, Str(<<"h", COLON, "9">>)>> >>)},
        scn \in {INITIAL_SCENARIOS, Arr(<<>>)},
        sty \in {DEFAULT_STYLES, Obj(<< <<K_known, Obj(<< <<K_color, Str(<<HASH, "0">>)>> >>)>> >>)} }

\* migratedStyles / nextStyles: { ...DEFAULT_STYLES } with every key of the
\* given styles value set to deepMergeConfig(DEFAULT_STYLE, its value)
RECURSIVE MergeStyleEntries(_, _)
MergeStyleEntries(acc, entries) ==
    IF entries = <<>> THEN acc
    ELSE MergeStyleEntries(
             ObjSet(acc, Head(entries)[1], deepMergeConfig(DEFAULT_STYLE, Head(entries)[2])),
             Tail(entries))

\* the older import handler: setStyles(newConfig.styles)
NextStylesReplace(newConfig) ==
    IF Truthy(Get(newConfig, K_styles)) THEN Get(newConfig, K_styles) ELSE DEFAULT_STYLES

\* A styles import that keeps the current styles when the document has none
NextStylesKeep(newConfig) ==
    IF Truthy(Get(newConfig, K_styles))
    THEN MergeStyleEntries(DEFAULT_STYLES, ObjectEntries(Get(newConfig, K_styles)))
    ELSE styles

NextStyles(newConfig) ==
    IF Truthy(Get(newConfig, K_styles))
    THEN MergeStyleEntries(DEFAULT_STYLES, ObjectEntries(Get(newConfig, K_styles)))
    ELSE DEFAULT_STYLES

\* A list import that adds the imported records to the current ones
NextListConcat(imported, current) ==
    IF IsArray(imported) /\ IsArray(current) THEN Arr(current.v \o imported.v) ELSE current

\* Arrays: replace if valid
NextList(imported, current) ==
    IF IsArray(imported) /\ Len(imported.v) > 0 THEN imported ELSE current

\* s.length ? s : INITIAL
LoadedList(stored, initial) == IF Len(stored.v) # 0 THEN stored ELSE initial

\* ---- import documents ----

Line(level, text) == indent(level) \o text \o <<NL>>

ImportTexts ==
    { \* a user-defined category, key quoted as the exporter writes it
      Line(0, K_styles \o <<COLON>>)
        \o Line(1, <<DQ>> \o K_mine \o <<DQ, COLON>>)
        \o Line(2, K_color \o <<COLON, SP, DQ, HASH, "0", DQ>>),
      \* a user-defined category with every field, and a built-in one
      Line(0, K_styles \o <<COLON>>)
        \o Line(1, K_mine \o <<COLON>>)
        \o Line(2, K_color \o <<COLON, SP, DQ, HASH, "0", DQ>>)
        \o Line(2, K_isBold \o <<COLON, SP, "t", "r", "u", "e">>)
        \o Line(2, K_originalText \o <<COLON>>)
        \o Line(3, K_enabled \o <<COLON, SP, "f", "a", "l", "s", "e">>)
        \o Line(1, K_known \o <<COLON>>)
        \o Line(2, K_isBold \o <<COLON, SP, "t", "r", "u", "e">>),
      \* a category that is not a block, and one with a null and an extra field
      Line(0, K_styles \o <<COLON>>)
        \o Line(1, K_mine \o <<COLON, SP, "5">>)
        \o Line(1, K_w \o <<COLON>>)
        \o Line(2, K_color \o <<COLON, SP, "n", "u", "l", "l">>)
        \o Line(2, K_w \o <<COLON, SP, "1">>),
      \* no styles: general, a one-record scenario list, anki, a one-record
      \* engine list, pageWidget, interaction
      Line(0, K_general \o <<COLON>>)
        \o Line(1, K_enabled \o <<COLON, SP, "f", "a", "l", "s", "e">>)
        \o Line(0, K_scenarios \o <<COLON>>)
        \o Line(1, <<DASH, SP>> \o K_id \o <<COLON, SP, "7">>)
        \o Line(0, K_anki \o <<COLON>>)
        \o Line(1, K_url \o <<COLON, SP, "n", "u", "l", "l">>)
        \o Line(0, K_engines \o <<COLON>>)
        \o Line(1, <<DASH, SP>> \o K_id \o <<COLON, SP, "7">>)
        \o Line(0, K_pageWidget \o <<COLON>>)
        \o Line(1, K_showTags \o <<COLON, SP, "f", "a", "l", "s", "e">>)
        \o Line(0, K_interaction \o <<COLON>>)
        \o Line(1, K_dismissDelay \o <<COLON, SP, "9">>),
      \* an empty scenarios block, an empty engine list, two sections null
      Line(0, K_scenarios \o <<COLON>>)
        \o Line(0, K_engines \o <<COLON, SP, LBRACK, RBRACK>>)
        \o Line(0, K_general \o <<COLON, SP, "n", "u", "l", "l">>)
        \o Line(0, K_pageWidget \o <<COLON, SP, "n", "u", "l", "l">>),
      \* styles given as a scalar, an empty scenario list, engines null
      Line(0, K_styles \o <<COLON, SP, "o", "n">>)
        \o Line(0, K_scenarios \o <<COLON, SP, LBRACK, RBRACK>>)
        \o Line(0, K_engines \o <<COLON, SP, "n", "u", "l", "l">>) }

\* what ConfigManagementSection hands to onImport
ImportConfigs == {parseConfigYaml(t) : t \in ImportTexts}

Init ==
    /\ isLoading = TRUE
    /\ scenarios = Arr(<<>>)
    /\ pageWidgetConfig = DEFAULT_PAGE_WIDGET
    /\ autoTranslate = DEFAULT_AUTO_TRANSLATE
    /\ engines = INITIAL_ENGINES
    /\ ankiConfig = DEFAULT_ANKI_CONFIG
    /\ styles = DEFAULT_STYLES
    /\ interactionConfig = DEFAULT_WORD_INTERACTION
    /\ storage \in StoredStates
    /\ timer = Undefined /\ stale = TRUE /\ inflight = <<>>
    /\ heap = <<>>
    /\ phase = "mounted"
    /\ input = Undefined /\ yaml = <<>> /\ parsed = Undefined
    /\ defaultConfig = Undefined /\ importedConfig = Undefined /\ merged = Undefined

pureRest == <<input, yaml, defaultConfig, importedConfig, merged, heap>>

\* the state the render in progress sees
Current ==
    Snapshot(autoTranslate, interactionConfig, pageWidgetConfig, ankiConfig,
             scenarios, engines, styles)

\* loadData: the stored values are merged into state and isLoading is cleared;
\* the auto-save effect is due to run again (its dependencies changed)
LoadData ==
    /\ isLoading
    /\ scenarios' = LoadedList(storage.scenarios, INITIAL_SCENARIOS)
    /\ pageWidgetConfig' = deepMergeConfig(DEFAULT_PAGE_WIDGET, storage.pageWidgetConfig)
    /\ autoTranslate' = deepMergeConfig(DEFAULT_AUTO_TRANSLATE, storage.autoTranslateConfig)
    /\ engines' = LoadedList(storage.engines, INITIAL_ENGINES)
    /\ ankiConfig' = deepMergeConfig(DEFAULT_ANKI_CONFIG, storage.ankiConfig)
    /\ styles' = MergeStyleEntries(DEFAULT_STYLES, ObjectEntries(storage.styles))
    /\ interactionConfig' = deepMergeConfig(DEFAULT_WORD_INTERACTION, storage.interactionConfig)
    /\ isLoading' = FALSE
    /\ stale' = TRUE
    /\ phase' = "loaded"
    /\ UNCHANGED <<storage, timer, inflight, parsed, pureRest>>

\* An effect without its isLoading test
RunEffectWhileLoading ==
    /\ stale
    /\ timer' = Current
    /\ stale' = FALSE
    /\ UNCHANGED <<isLoading, autoTranslate, interactionConfig, pageWidgetConfig, ankiConfig,
                   scenarios, engines, styles, storage, inflight, phase, parsed, pureRest>>

\* An effect without its cleanup: a timer already pending is left to run and
\* no new one is set
RunEffectNoCleanup ==
    /\ stale
    /\ timer' = IF isLoading THEN Undefined ELSE IF timer # Undefined THEN timer ELSE Current
    /\ stale' = FALSE
    /\ UNCHANGED <<isLoading, autoTranslate, interactionConfig, pageWidgetConfig, ankiConfig,
                   scenarios, engines, styles, storage, inflight, phase, parsed, pureRest>>

\* the auto-save effect after a render whose dependencies changed: the
\* previous run's cleanup clears its timer, then a new timer is set that
\* closes over the rendered state
RunEffect ==
    /\ stale
    /\ timer' = IF isLoading THEN Undefined ELSE Current
    /\ stale' = FALSE
    /\ UNCHANGED <<isLoading, autoTranslate, interactionConfig, pageWidgetConfig, ankiConfig,
                   scenarios, engines, styles, storage, inflight, phase, parsed, pureRest>>

\* GeneralSection's setConfig: the user flips the master switch
ToggleEnabled ==
    /\ ~isLoading
    /\ autoTranslate' = ObjSet(autoTranslate, K_enabled,
                               Bool(~Get(autoTranslate, K_enabled).v))
    /\ stale' = TRUE
    /\ phase' = "edited"
    /\ UNCHANGED <<isLoading, interactionConfig, pageWidgetConfig, ankiConfig, scenarios,
                   engines, styles, storage, timer, inflight, parsed, pureRest>>

\* ScenariosSection's setScenarios: the user removes the last scenario
RemoveScenario ==
    /\ ~isLoading
    /\ scenarios.v # <<>>
    /\ scenarios' = Arr(SubSeq(scenarios.v, 1, Len(scenarios.v) - 1))
    /\ stale' = TRUE
    /\ phase' = "edited"
    /\ UNCHANGED <<isLoading, autoTranslate, interactionConfig, pageWidgetConfig, ankiConfig,
                   engines, styles, storage, timer, inflight, parsed, pureRest>>

\* A timer callback that writes nothing
AutoSaveNoWrite ==
    /\ timer # Undefined
    /\ timer' = Undefined
    /\ UNCHANGED <<isLoading, autoTranslate, interactionConfig, pageWidgetConfig, ankiConfig,
                   scenarios, engines, styles, storage, stale, inflight, phase, parsed, pureRest>>

\* the auto-save timer fires: setValue is called on every storage item with
\* the values of the timer's closure; the writes are asynchronous
AutoSave ==
    /\ timer # Undefined
    /\ Len(inflight) < MaxInflight
    /\ inflight' = Append(inflight, timer)
    /\ timer' = Undefined
    /\ UNCHANGED <<isLoading, autoTranslate, interactionConfig, pageWidgetConfig, ankiConfig,
                   scenarios, engines, styles, storage, stale, phase, parsed, pureRest>>

\* the store applies the oldest outstanding batch of setValue calls
StorageWrite ==
    /\ inflight # <<>>
    /\ storage' = Head(inflight)
    /\ inflight' = Tail(inflight)
    /\ UNCHANGED <<isLoading, autoTranslate, interactionConfig, pageWidgetConfig, ankiConfig,
                   scenarios, engines, styles, timer, stale, phase, parsed, pureRest>>

\* handleConfigImport up to its await: the next values are computed, put
\* into state, and setValue is called on the seven storage items
handleConfigImport(newConfig) ==
    /\ ~isLoading
    /\ Len(inflight) < MaxInflight
    /\ autoTranslate' = deepMergeConfig(DEFAULT_AUTO_TRANSLATE, Get(newConfig, K_general))
    /\ interactionConfig' = deepMergeConfig(DEFAULT_WORD_INTERACTION, Get(newConfig, K_interaction))
    /\ pageWidgetConfig' = deepMergeConfig(DEFAULT_PAGE_WIDGET, Get(newConfig, K_pageWidget))
    /\ ankiConfig' = deepMergeConfig(DEFAULT_ANKI_CONFIG, Get(newConfig, K_anki))
    /\ scenarios' = NextList(Get(newConfig, K_scenarios), scenarios)
    /\ engines' = NextList(Get(newConfig, K_engines), engines)
    /\ styles' = NextStyles(newConfig)
    /\ inflight' = Append(inflight,
                          Snapshot(autoTranslate', interactionConfig', pageWidgetConfig',
                                   ankiConfig', scenarios', engines', styles'))
    /\ stale' = TRUE
    /\ parsed' = newConfig
    /\ phase' = "imported"
    /\ UNCHANGED <<isLoading, timer, storage, pureRest>>

Next ==
    \/ LoadData
    \/ RunEffect
    \/ ToggleEnabled
    \/ RemoveScenario
    \/ AutoSave
    \/ StorageWrite
    \/ \E newConfig \in ImportConfigs : handleConfigImport(newConfig)

Spec == Init /\ [][Next]_vars

\* every schema field the imported category gives a non-null value keeps that
\* value in the result, through nested objects of the schema
RECURSIVE ImportedKept(_, _, _)
ImportedKept(def, imp, res) ==
    \A f \in 1..Len(def.v) :
       LET k == def.v[f][1] IN
       IF IsPlainObject(def.v[f][2])
       THEN IsPlainObject(Get(imp, k)) => ImportedKept(def.v[f][2], Get(imp, k), Get(res, k))
       ELSE ~IsNullish(Get(imp, k)) => Get(res, k) = Get(imp, k)

\* C8 (dynamic-key styles section): after an import (`parsed` is the imported
\* document), styles is a map that holds every built-in category of
\* DEFAULT_STYLES, every category in it has every field of DEFAULT_STYLE
\* (nested fields included), and every imported
\* category that is not built in is present, holding the imported (non-null)
\* value of every style field the document gives it.
C8_DynamicKeyStyles ==
    phase = "imported" =>
    LET imp == Get(parsed, K_styles) IN
    /\ IsPlainObject(styles)
    /\ \A b \in 1..Len(DEFAULT_STYLES.v) : HasKey(styles, DEFAULT_STYLES.v[b][1])
    /\ \A c \in 1..Len(styles.v) : KeysKept(DEFAULT_STYLE, styles.v[c][2])
    /\ IsPlainObject(imp) =>
          \A c \in 1..Len(imp.v) :
             ~HasKey(DEFAULT_STYLES, imp.v[c][1]) =>
                /\ HasKey(styles, imp.v[c][1])
                /\ IsPlainObject(imp.v[c][2]) =>
                      ImportedKept(DEFAULT_STYLE, imp.v[c][2], Get(styles, imp.v[c][1]))

\* C8 witness: the imported category "mine" gave only a color; styles holds
\* it with that color and the default isBold, beside the built-in "known"
C8_Witness ==
    /\ phase = "imported"
    /\ Get(Get(parsed, K_styles), K_mine) = Obj(<< <<K_color, Str(<<HASH, "0">>)>> >>)
    /\ Get(Get(styles, K_mine), K_color) = Str(<<HASH, "0">>)
    /\ Get(Get(styles, K_mine), K_isBold) = Bool(FALSE)
    /\ Get(styles, K_known) = DEFAULT_STYLE

----------------------------------------------------------------------------
(* Further properties of deepMergeConfig (SpecMerge)                        *)

\* array, non-array object, or scalar
Shape(x) == IF IsArray(x) THEN "array" ELSE IF IsPlainObject(x) THEN "object" ELSE "scalar"

\* at every position where a (non-null, present) imported value differs in
\* shape from the default, m holds the default's value
RECURSIVE ShapeWins(_, _, _)
ShapeWins(d, i, m) ==
    IF IsNullish(i) THEN TRUE
    ELSE IF Shape(d) # Shape(i) THEN m = d
    ELSE IF IsPlainObject(d)
    THEN \A f \in 1..Len(d.v) :
            ShapeWins(d.v[f][2], Get(i, d.v[f][1]), Get(m, d.v[f][1]))
    ELSE TRUE

\* C11 (default shape wins), as claimed: wherever the imported value differs
\* in shape (array / object / scalar) from the default at the same position,
\* at top level or under a key, the merged result holds the default's value
\* at that position.
C11_DefaultShapeWins ==
    phase = "merged" => ShapeWins(defaultConfig, importedConfig, merged)

\* C13 (top-level array rule): when the default is an array, the result is
\* the imported value itself if that is a non-empty array, and the default
\* itself for every other imported value.
C13_TopLevelArrayRule ==
    (phase = "merged" /\ IsArray(defaultConfig))
    => merged = IF IsArray(importedConfig) /\ importedConfig.v # <<>>
                THEN importedConfig ELSE defaultConfig

\* C13 witness: a non-empty default array met a different non-empty array
C13_Witness ==
    /\ phase = "merged"
    /\ IsArray(defaultConfig) /\ defaultConfig.v # <<>>
    /\ IsArray(importedConfig) /\ importedConfig.v # <<>>
    /\ importedConfig # defaultConfig
    /\ merged = importedConfig

----------------------------------------------------------------------------
(* SpecHeap: deepMergeConfig on objects with identity.  The heap is a      *)
(* sequence of cells; a cell is an object (entries) or an array (elements) *)
(* whose nested objects and arrays are held by reference.                  *)

Ref(a) == [t |-> "ref", v |-> a]
IsRef(x) == x.t = "ref"
RefIsArray(h, x) == IsRef(x) /\ h[x.v].t = "array"
RefIsObject(h, x) == IsRef(x) /\ h[x.v].t = "object"

\* The value built in the heap: nested values first, then the cell itself
RECURSIVE Alloc(_, _)
RECURSIVE AllocAll(_, _, _)
AllocAll(h, vals, acc) ==
    IF vals = <<>> THEN [heap |-> h, refs |-> acc]
    ELSE LET r == Alloc(h, Head(vals))
         IN  AllocAll(r.heap, Tail(vals), Append(acc, r.ref))

Alloc(h, val) ==
    IF IsArray(val)
    THEN LET r == AllocAll(h, val.v, <<>>)
         IN  [heap |-> Append(r.heap, Arr(r.refs)), ref |-> Ref(Len(r.heap) + 1)]
    ELSE IF IsPlainObject(val)
    THEN LET r == AllocAll(h, [i \in 1..Len(val.v) |-> val.v[i][2]], <<>>)
         IN  [heap |-> Append(r.heap,
                              Obj([i \in 1..Len(val.v) |-> <<val.v[i][1], r.refs[i]>>])),
              ref |-> Ref(Len(r.heap) + 1)]
    ELSE [heap |-> h, ref |-> val]

\* The value a reference denotes
RECURSIVE Deref(_, _)
Deref(h, x) ==
    IF ~IsRef(x) THEN x
    ELSE IF h[x.v].t = "array"
    THEN Arr([i \in 1..Len(h[x.v].v) |-> Deref(h, h[x.v].v[i])])
    ELSE Obj([i \in 1..Len(h[x.v].v) |->
                 <<h[x.v].v[i][1], Deref(h, h[x.v].v[i][2])>>])

\* result = defaultConfig (no copy): the result is the default object itself
SpreadAlias(h, d) == [heap |-> h, ref |-> d]

\* const result = { ...defaultConfig }: a new object with the same entries
SpreadCopy(h, d) == [heap |-> Append(h, h[d.v]), ref |-> Ref(Len(h) + 1)]

\* result[key] = x
CellSet(h, r, k, x) == [h EXCEPT ![r.v] = ObjSet(@, k, x)]

\* o[key] through a reference
GetRef(h, o, k) == IF RefIsObject(h, o) THEN Get(h[o.v], k) ELSE Undefined

RECURSIVE deepMergeRef(_, _, _)
RECURSIVE MergeKeysRef(_, _, _, _, _, _)

\* Object.keys(defaultConfig).forEach(...), from the f-th key on
MergeKeysRef(h, keys, d, i, result, f) ==
    IF f > Len(keys) THEN [heap |-> h, ref |-> result]
    ELSE LET defVal == GetRef(h, d, keys[f])
             impVal == GetRef(h, i, keys[f])
         IN  IF RefIsObject(h, defVal)
             THEN LET r == deepMergeRef(h, defVal, impVal)
                  IN  MergeKeysRef(CellSet(r.heap, result, keys[f], r.ref),
                                   keys, d, i, result, f + 1)
             ELSE IF impVal # Undefined
             THEN MergeKeysRef(CellSet(h, result, keys[f], impVal), keys, d, i, result, f + 1)
             ELSE MergeKeysRef(h, keys, d, i, result, f + 1)

deepMergeRef(h, d, i) ==
    IF IsNullish(i) THEN [heap |-> h, ref |-> d]
    ELSE IF RefIsArray(h, d)
    THEN [heap |-> h, ref |-> IF RefIsArray(h, i) /\ Len(h[i.v].v) > 0 THEN i ELSE d]
    ELSE IF RefIsObject(h, d)
    THEN LET c == SpreadCopy(h, d)
         IN  MergeKeysRef(c.heap, Keys(h[d.v]), d, i, c.ref, 1)
    ELSE [heap |-> h, ref |-> i]

\* nextStyles / migratedStyles: { ...registry }, then for every key of the
\* given styles object, result[key] = deepMergeConfig(perStyle, styles[key])
RECURSIVE StyleKeysRef(_, _, _, _, _, _)
StyleKeysRef(h, keys, perStyle, i, result, f) ==
    IF f > Len(keys) THEN [heap |-> h, ref |-> result]
    ELSE LET r == deepMergeRef(h, perStyle, GetRef(h, i, keys[f]))
         IN  StyleKeysRef(CellSet(r.heap, result, keys[f], r.ref),
                          keys, perStyle, i, result, f + 1)

InitHeap ==
    /\ AppIdle
    /\ phase = "input"
    /\ \E d \in MergeDefaults, i \in MergeImports :
          LET a == Alloc(<<>>, d)
              b == Alloc(a.heap, i)
          IN  /\ heap = b.heap
              /\ input = b.heap
              /\ defaultConfig = a.ref
              /\ importedConfig = b.ref
    /\ merged = Undefined
    /\ yaml = <<>> /\ parsed = Undefined

\* deepMergeConfig(default, imported)
MergeRefs ==
    /\ phase = "input"
    /\ LET r == deepMergeRef(heap, defaultConfig, importedConfig)
       IN  heap' = r.heap /\ merged' = r.ref
    /\ phase' = "merged"
    /\ UNCHANGED <<appVars, input, yaml, parsed, defaultConfig, importedConfig>>

\* a later load or import: deepMergeConfig(default, the earlier result)
MergeAgain ==
    /\ phase = "merged"
    /\ LET r == deepMergeRef(heap, defaultConfig, merged)
       IN  heap' = r.heap /\ merged' = r.ref
    /\ importedConfig' = merged
    /\ phase' = "remerged"
    /\ UNCHANGED <<appVars, input, yaml, parsed, defaultConfig>>

\* the styles step of loadData and handleConfigImport, with the default as
\* the registry and its entry under `a` as the per-style default
MergeStylesRef ==
    /\ phase = "input"
    /\ RefIsObject(heap, defaultConfig)
    /\ RefIsObject(heap, importedConfig)
    /\ LET c == SpreadCopy(heap, defaultConfig)
           r == StyleKeysRef(c.heap, Keys(heap[importedConfig.v]),
                             GetRef(heap, defaultConfig, K_a), importedConfig, c.ref, 1)
       IN  heap' = r.heap /\ merged' = r.ref
    /\ phase' = "styled"
    /\ UNCHANGED <<appVars, input, yaml, parsed, defaultConfig, importedConfig>>

NextHeap == MergeRefs \/ MergeAgain \/ MergeStylesRef

SpecHeap == InitHeap /\ [][NextHeap]_vars

\* the result by reference denotes the result by value
DerefAgrees ==
    phase = "merged" =>
       Deref(heap, merged) = deepMergeConfig(Deref(input, defaultConfig),
                                             Deref(input, importedConfig))

\* C12 (reconciler purity): after deepMergeConfig, after a second merge of
\* its result, and after the styles step of a load or import, every object
\* and array that existed before the call (the default, the imported value
\* and everything nested in them) is unchanged.
C12_ReconcilerPurity ==
    phase \in {"merged", "remerged", "styled"} =>
       /\ Len(heap) >= Len(input)
       /\ \A a \in 1..Len(input) : heap[a] = input[a]

\* C12 witness: the merge built a new object that differs from the default
\* (an imported value was written into it) and still shares a nested object
\* or array with the default
C12_Witness ==
    /\ phase = "merged"
    /\ RefIsObject(heap, defaultConfig)
    /\ IsRef(merged) /\ merged.v > Len(input)
    /\ heap[merged.v] # heap[defaultConfig.v]
    /\ \E f \in 1..Len(heap[merged.v].v) :
          /\ IsRef(heap[merged.v].v[f][2])
          /\ heap[merged.v].v[f][2] = GetRef(heap, defaultConfig, heap[merged.v].v[f][1])

----------------------------------------------------------------------------
(* SpecRecover: an exported document with one malformed line inserted,     *)
(* parsed and reconciled against defaults.                                 *)

\* the document that is exported: every value differs from the default's
RecoverDoc ==
    Obj(<< <<K_general, Obj(<< <<K_enabled, Bool(FALSE)>>, <<K_ttsSpeed, Num(2)>> >>)>>,
           <<K_styles, Obj(<< <<K_known, Obj(<< <<K_isBold, Bool(TRUE)>> >>)>> >>)>>,
           <<K_scenarios, Arr(<<Obj(<< <<K_x, Num(5)>> >>)>>)>>,
           <<K_interaction, Obj(<< <<K_dismissDelay, Num(9)>> >>)>>,
           <<K_pageWidget, Obj(<< <<K_showTags, Bool(FALSE)>> >>)>>,
           <<K_engines, Arr(<<Obj(<< <<K_x, Num(5)>> >>)>>)>>,
           <<K_anki, Obj(<< <<K_autoSync, Bool(TRUE)>> >>)>> >>)

RecoverDefaults ==
    Obj(<< <<K_general, Obj(<< <<K_enabled, Bool(TRUE)>>, <<K_ttsSpeed, Num(1)>> >>)>>,
           <<K_styles, Obj(<< <<K_known, Obj(<< <<K_isBold, Bool(FALSE)>> >>)>> >>)>>,
           <<K_scenarios, Arr(<<Obj(<< <<K_x, Num(1)>> >>)>>)>>,
           <<K_interaction, Obj(<< <<K_dismissDelay, Num(3)>> >>)>>,
           <<K_pageWidget, Obj(<< <<K_showTags, Bool(TRUE)>> >>)>>,
           <<K_engines, Arr(<<Obj(<< <<K_x, Num(1)>> >>)>>)>>,
           <<K_anki, Obj(<< <<K_autoSync, Bool(FALSE)>> >>)>> >>)

\* malformed lines: an unterminated quote, a stray dash, a line with no
\* colon, each at indentation 0..2 (so also wrongly indented for its place)
BadBodies ==
    { <<"q", COLON, SP, DQ, "a">>, <<DASH>>, <<"j", "u", "n", "k">>, <<DASH, SP, DQ>> }

BadLines == {Spaces(n) \o b : n \in 0..2, b \in BadBodies}

ExportedLines == Split(generateConfigYaml(RecoverDoc), NL)

InitRecover ==
    /\ AppIdle /\ heap = <<>>
    /\ phase = "exported"
    /\ yaml = generateConfigYaml(RecoverDoc)
    /\ input = Undefined /\ parsed = Undefined
    /\ defaultConfig = RecoverDefaults /\ importedConfig = Undefined /\ merged = Undefined

\* the user's edit: one malformed line inserted after line pos
InsertLine(pos, bad) ==
    /\ phase = "exported"
    /\ yaml' = Join(SubSeq(ExportedLines, 1, pos) \o <<bad>>
                    \o SubSeq(ExportedLines, pos + 1, Len(ExportedLines)), <<NL>>)
    /\ input' = [pos |-> pos, line |-> bad]
    /\ phase' = "damaged"
    /\ UNCHANGED <<appVars, heap, parsed, defaultConfig, importedConfig, merged>>

ParseDamaged ==
    /\ phase \in {"exported", "damaged"}
    /\ parsed' = parseConfigYaml(yaml)
    /\ phase' = IF phase = "exported" THEN "parsedIntact" ELSE "parsedDamaged"
    /\ UNCHANGED <<appVars, heap, input, yaml, defaultConfig, importedConfig, merged>>

ReconcileDamaged ==
    /\ phase \in {"parsedIntact", "parsedDamaged"}
    /\ importedConfig' = parsed
    /\ merged' = deepMergeConfig(defaultConfig, parsed)
    /\ phase' = IF phase = "parsedIntact" THEN "mergedIntact" ELSE "mergedDamaged"
    /\ UNCHANGED <<appVars, heap, input, yaml, parsed, defaultConfig>>

NextRecover ==
    \/ \E pos \in 0..Len(ExportedLines), bad \in BadLines : InsertLine(pos, bad)
    \/ ParseDamaged
    \/ ReconcileDamaged

SpecRecover == InitRecover /\ [][NextRecover]_vars

\* the untouched document comes back whole
IntactRecovered == phase = "mergedIntact" => DeepEqual(merged, RecoverDoc)

\* C14 (one bad line does not lose the rest), as claimed: with one malformed
\* line inserted anywhere in the exported document, every key/value of the
\* document's own lines is in the reconciled result.
C14_OneBadLine ==
    phase = "mergedDamaged" => DeepEqual(merged, RecoverDoc)

----------------------------------------------------------------------------
(* SpecSteps: parseLines run one loop iteration at a time.  `heap` holds   *)
(* the call stack of parseLines frames (innermost last); `input` the raw   *)
(* lines typed.                                                            *)

RawBodies ==
    { K_a \o <<COLON>>,
      K_a \o <<COLON, SP, "1">>,
      <<DASH, SP>> \o K_a \o <<COLON, SP, "1">>,
      <<DASH, SP, DASH, SP>> \o K_a \o <<COLON, SP, "1">>,
      <<DASH>>,
      <<"x", DQ>> }

\* a fresh call parseLines(lines, currentIndent); pend says where the caller
\* puts the result ("key": result[key], "item": arrayItems.push)
Frame(lines, currentIndent, pend) ==
    [lines |-> lines, currentIndent |-> currentIndent, i |-> 1, result |-> EmptyObj,
     isArray |-> FALSE, arrayItems |-> <<>>, pend |-> pend]

NoPend == [kind |-> "none", key |-> <<>>]

Top == heap[Len(heap)]

\* the `while` test and the `indent < currentIndent` break
LoopEnds(f) ==
    IF f.i > Len(f.lines) THEN TRUE
    ELSE Search(f.lines[f.i]) < f.currentIndent

InitSteps == InitParse

TypeRaw(n, body) ==
    /\ phase = "typing"
    /\ Len(input) < MaxLines
    /\ input' = Append(input, Spaces(n) \o body)
    /\ yaml' = yaml \o Spaces(n) \o body \o <<NL>>
    /\ UNCHANGED <<appVars, heap, phase, parsed, defaultConfig, importedConfig, merged>>

\* parseConfigYaml up to the call parseLines(lines, 0)
StartParse ==
    /\ phase = "typing"
    /\ heap' = <<Frame(PreprocessLines(yaml), 0, NoPend)>>
    /\ phase' = "parsing"
    /\ UNCHANGED <<appVars, input, yaml, parsed, defaultConfig, importedConfig, merged>>

\* the frame after one iteration of the while loop, and the call it makes
\* (<<>> when it makes none)
IterateFrame(f) ==
    LET lines == f.lines
        i == f.i
        line == lines[i]
        lineIndent == Search(line)
        content == Trim(line)
        valPart == Trim(Tail(content))
        colonIndex == IndexOf(content, COLON)
        key == CleanKey(SubSeq(content, 1, colonIndex))
        valStr == Trim(SubSeq(content, colonIndex + 2, Len(content)))
        j == BlockEnd(lines, i + 1, lineIndent)
        blockLines == SubSeq(lines, i + 1, j - 1)
    IN
    IF lineIndent > f.currentIndent
    THEN <<[f EXCEPT !.i = i + 1]>>
    ELSE IF StartsWith(content, <<DASH>>)
    THEN IF valPart # <<>>
         THEN IF Includes(valPart, <<COLON, SP>>)
              THEN << [f EXCEPT !.i = j, !.isArray = TRUE],
                      Frame(<<Spaces(lineIndent) \o valPart>> \o blockLines, lineIndent,
                            [kind |-> "item", key |-> <<>>]) >>
              ELSE <<[f EXCEPT !.i = i + 1, !.isArray = TRUE,
                               !.arrayItems = Append(@, parseValue(valPart))]>>
         ELSE <<[f EXCEPT !.i = i + 1, !.isArray = TRUE]>>
    ELSE IF colonIndex # -1
    THEN IF valStr # <<>>
         THEN <<[f EXCEPT !.i = i + 1, !.result = ObjSet(@, key, parseValue(valStr))]>>
         ELSE IF blockLines # <<>>
              THEN << [f EXCEPT !.i = j],
                      Frame(blockLines, Search(blockLines[1]), [kind |-> "key", key |-> key]) >>
              ELSE <<[f EXCEPT !.i = j, !.result = ObjSet(@, key, EmptyObj)]>>
    ELSE <<[f EXCEPT !.i = i + 1]>>

Iterate ==
    /\ phase = "parsing"
    /\ ~LoopEnds(Top)
    /\ heap' = SubSeq(heap, 1, Len(heap) - 1) \o IterateFrame(Top)
    /\ UNCHANGED <<appVars, phase, input, yaml, parsed, defaultConfig, importedConfig, merged>>

\* `return { result: isArray ? arrayItems : result, ... }` and the caller's use
Return ==
    /\ phase = "parsing"
    /\ LoopEnds(Top)
    /\ LET value == IF Top.isArray THEN Arr(Top.arrayItems) ELSE Top.result
           caller == heap[Len(heap) - 1]
       IN  IF Len(heap) = 1
           THEN /\ parsed' = value
                /\ phase' = "parsed"
                /\ heap' = <<>>
           ELSE /\ heap' = SubSeq(heap, 1, Len(heap) - 2) \o
                      << IF Top.pend.kind = "key"
                         THEN [caller EXCEPT !.result = ObjSet(@, Top.pend.key, value)]
                         ELSE [caller EXCEPT !.arrayItems = Append(@, value)] >>
                /\ UNCHANGED <<phase, parsed>>
    /\ UNCHANGED <<appVars, input, yaml, defaultConfig, importedConfig, merged>>

NextSteps ==
    \/ \E n \in 0..2, body \in RawBodies : TypeRaw(n, body)
    \/ StartParse
    \/ Iterate
    \/ Return

SpecSteps == InitSteps /\ [][NextSteps]_vars

\* the stepped run returns what the recursive definition computes
StepsAgree == phase = "parsed" => parsed = parseConfigYaml(yaml)

\* number of characters of a list of lines
RECURSIVE CharCount(_)
CharCount(lines) == IF lines = <<>> THEN 0 ELSE Len(Head(lines)) + CharCount(Tail(lines))

\* every loop iteration leaves the index of the frame that ran it higher
IndexAdvances == Iterate => heap'[Len(heap)].i > heap[Len(heap)].i

\* every recursive call is on less text than its caller's
CallsShrink ==
    \A k \in 1..(Len(heap) - 1) : CharCount(heap[k + 1].lines) < CharCount(heap[k].lines)

\* the work a call stack still has to do: for each frame its return, and for
\* each line not yet consumed one unit plus two per character
Remaining(f) == SubSeq(f.lines, f.i, Len(f.lines))

RECURSIVE Rank(_)
Rank(stack) ==
    IF stack = <<>> THEN 0
    ELSE 1 + Len(Remaining(Head(stack))) + 2 * CharCount(Remaining(Head(stack)))
         + Rank(Tail(stack))

\* every step of a parse leaves strictly less work
WorkShrinks == (Iterate \/ Return) => Rank(heap') < Rank(heap)

\* C15 (parser totality): for every text, each loop iteration of parseLines
\* advances the line index by at least one, each recursive call is on
\* strictly less text, each step of the parse strictly lowers a natural
\* number (so the parse ends), and what it returns is an object or an array.
C15_ParserTotality ==
    /\ [][IndexAdvances /\ WorkShrinks]_vars
    /\ [](phase = "parsing" => CallsShrink)
    /\ [](phase = "parsed" => (IsPlainObject(parsed) \/ IsArray(parsed)))

\* C15 witness: a parse that made a call inside a call has returned an array
C15_Witness ==
    /\ phase = "parsing"
    /\ Len(heap) = 3
    /\ heap[1].isArray
    /\ LoopEnds(Top)

----------------------------------------------------------------------------
(* Import and auto-save (Spec)                                             *)

\* nothing is scheduled, pending or being written
Quiescent == ~stale /\ timer = Undefined /\ inflight = <<>>

OlderSaveLanded ==
    /\ phase = "imported"
    /\ inflight = <<>> /\ timer = Undefined /\ stale
    /\ storage # Undefined
    /\ storage # Current


\* a step of Spec that is an import
ImportStep == \E newConfig \in ImportConfigs : handleConfigImport(newConfig)

\* the list state after an import: the imported value when it is a non-empty
\* array, the list as it was otherwise; and the write issued carries it
ListAfterImport(imported, before, after, written) ==
    /\ after = (IF imported.t = "array" /\ imported.v # <<>> THEN imported ELSE before)
    /\ written = after

\* C17 (record lists on import): an import leaves scenarios (resp. engines)
\* equal to the imported array when that is a non-empty array and equal to
\* the list before the import otherwise, and writes that same list.
C17_RecordListsOnImport ==
    [][ImportStep =>
          /\ ListAfterImport(Get(parsed', K_scenarios), scenarios, scenarios',
                             inflight'[Len(inflight')].scenarios)
          /\ ListAfterImport(Get(parsed', K_engines), engines, engines',
                             inflight'[Len(inflight')].engines)]_vars

\* C17 witness: an import with an empty scenario list and null engines came
\* after one that had replaced both lists; both lists are the replaced ones
C17_Witness ==
    /\ phase = "imported"
    /\ Get(parsed, K_scenarios) = Arr(<<>>)
    /\ Get(parsed, K_engines) = Null
    /\ scenarios = Arr(<< Obj(<< <<K_id, Num(7)>> >>) >>)
    /\ engines = Arr(<< Obj(<< <<K_id, Num(7)>> >>) >>)

----------------------------------------------------------------------------
(* SpecComment: a line `k: value` typed with a trailing comment            *)

\* value tokens with the value each denotes
CommentedTokens ==
    { [text |-> <<"t", "r", "u", "e">>, value |-> Bool(TRUE)],
      [text |-> <<"f", "a", "l", "s", "e">>, value |-> Bool(FALSE)],
      [text |-> <<"n", "u", "l", "l">>, value |-> Null],
      [text |-> <<"1", "5">>, value |-> Num(15)],
      [text |-> <<DASH, "3">>, value |-> Num(-3)],
      [text |-> <<"0">>, value |-> Num(0)],
      [text |-> <<"f", "a", "s", "t">>, value |-> Str(<<"f", "a", "s", "t">>)],
      [text |-> <<"a", SP, "b">>, value |-> Str(<<"a", SP, "b">>)],
      [text |-> <<DQ, "s", DQ>>, value |-> Str(<<"s">>)],
      [text |-> <<SQ, "s", SQ>>, value |-> Str(<<"s">>)],
      [text |-> <<DQ, "a", HASH, "b", DQ>>, value |-> Str(<<"a", HASH, "b">>)],
      [text |-> <<DQ, "i", "t", SQ, "s", DQ>>, value |-> Str(<<"i", "t", SQ, "s">>)],
      [text |-> <<DQ, DQ>>, value |-> Str(<<>>)],
      [text |-> <<LBRACK, RBRACK>>, value |-> Arr(<<>>)],
      [text |-> <<LBRACK, "1", COMMA, SP, "2", RBRACK>>, value |-> Arr(<<Num(1), Num(2)>>)] }

\* the comment, from its '#' on
CommentTexts ==
    { <<HASH>>,
      <<HASH, SP, "o", "n">>,
      <<HASH, "x", HASH, "y">>,
      <<HASH, SP, "i", "t", SQ, "s">>,
      <<HASH, SP, DQ, "q", DQ, SP, HASH>>,
      <<HASH, SP, "k", COLON, SP, "1">> }

InitComment ==
    /\ AppIdle /\ heap = <<>>
    /\ phase = "typing"
    /\ input = Undefined /\ yaml = <<>> /\ parsed = Undefined
    /\ defaultConfig = Undefined /\ importedConfig = Undefined /\ merged = Undefined

TypeCommented(tok, gap, c) ==
    /\ phase = "typing"
    /\ input' = [token |-> tok.text, value |-> tok.value, comment |-> c]
    /\ yaml' = K_k \o <<COLON, SP>> \o tok.text \o Spaces(gap) \o c \o <<NL>>
    /\ phase' = "commented"
    /\ UNCHANGED <<appVars, heap, parsed, defaultConfig, importedConfig, merged>>

ParseCommented ==
    /\ phase = "commented"
    /\ parsed' = parseConfigYaml(yaml)
    /\ phase' = "commentParsed"
    /\ UNCHANGED <<appVars, heap, input, yaml, defaultConfig, importedConfig, merged>>

NextComment ==
    \/ \E tok \in CommentedTokens, gap \in 0..1, c \in CommentTexts : TypeCommented(tok, gap, c)
    \/ ParseCommented

SpecComment == InitComment /\ [][NextComment]_vars

----------------------------------------------------------------------------
(* Block-style list items (SpecParse)                                      *)

\* the typed document is a bare dash followed only by `k: "s"` lines one
\* level deeper
DashThenFields ==
    /\ Len(input) >= 2
    /\ input[1] = [level |-> 0, body |-> "dash"]
    /\ \A n \in 2..Len(input) : input[n] = [level |-> 1, body |-> "pair"]

\* C19 (block-style list items), as claimed: a dash with nothing after it,
\* followed by deeper-indented fields, parses to an array holding one record
\* with those fields.
C19_BlockStyleItem ==
    (phase = "parsed" /\ DashThenFields)
    => parsed = Arr(<< Obj(<< <<K_k, Str(<<"s">>)>> >>) >>)

----------------------------------------------------------------------------
(* SpecLiteral: strings whose text looks like another kind of value,       *)
(* written by the dumper as a field value and read back.                   *)

LiteralTexts ==
    { <<"t", "r", "u", "e">>, <<"f", "a", "l", "s", "e">>, <<"n", "u", "l", "l">>,
      <<"1", "2">>, <<DASH, "3">>, <<"0">>,
      <<LBRACK, RBRACK>>, <<LBRACK, "1", RBRACK>>,
      <<"a">>, <<"T", "r", "u", "e">>, <<>>,
      <<"{", "}">>, <<"N", "U", "L", "L">> }

\* each text as it is, and with a leading and/or trailing space
LiteralStrings ==
    {Str(Spaces(lead) \o s \o Spaces(trail)) : lead \in 0..1, trail \in 0..1, s \in LiteralTexts}

InitLiteral ==
    /\ AppIdle /\ heap = <<>>
    /\ phase = "input"
    /\ input \in LiteralStrings
    /\ yaml = <<>> /\ parsed = Undefined
    /\ defaultConfig = Undefined /\ importedConfig = Undefined /\ merged = Undefined

NextLiteral == DumpField \/ ParseField

SpecLiteral == InitLiteral /\ [][NextLiteral]_vars

\* s starts and ends with a double quote
IsQuotedToken(s) == Len(s) >= 2 /\ Head(s) = DQ /\ s[Len(s)] = DQ

\* C20 (strings are always emitted quoted), as claimed: dumpValue writes a
\* string as a quoted token, and the field read back is that string, also
\* when its text is `true`, `null`, a number, `[]` or has spaces at its ends.
C20_StringsQuoted ==
    /\ phase = "dumped" => IsQuotedToken(dumpValue(input, 0))
    /\ phase = "dumpedParsed" => parsed = Obj(<< <<K_k, input>> >>)

----------------------------------------------------------------------------
(* Layout of the export (SpecRoundTrip)                                    *)

\* the lines generateConfigYaml writes for one scenario / engine record
RecordLines(rec, metadata) == Split(dumpRecord(rec, metadata), NL)

\* the first field follows the dash on its line; every later line is blank or
\* a field indented deeper than the dash, none a comment
InlineUncommented(rec, metadata) ==
    LET ls == RecordLines(rec, metadata)
    IN  /\ StartsWith(ls[1], <<SP, SP, DASH, SP>> \o ObjectEntries(rec)[1][1] \o <<COLON, SP>>)
        /\ \A n \in 2..Len(ls) :
              \/ Trim(ls[n]) = <<>>
              \/ /\ Search(ls[n]) > 2
                 /\ ~StartsWith(Trim(ls[n]), <<HASH>>)

\* C21 (records are dumped inline and uncommented), as claimed: in the
\* export, every scenario and engine record has its first field on the line
\* of the dash, its other fields on deeper lines, and no comment line.
C21_InlineRecords ==
    phase = "dumped" =>
        /\ \A n \in 1..Len(Get(input, K_scenarios).v) :
              /\ Includes(yaml, dumpRecord(Get(input, K_scenarios).v[n], scenarioFields))
              /\ InlineUncommented(Get(input, K_scenarios).v[n], scenarioFields)
        /\ \A n \in 1..Len(Get(input, K_engines).v) :
              /\ Includes(yaml, dumpRecord(Get(input, K_engines).v[n], engineFields))
              /\ InlineUncommented(Get(input, K_engines).v[n], engineFields)


\* an array that holds at least one record
HasRecord(val) == val.t = "array" /\ \E n \in 1..Len(val.v) : val.v[n].t = "object"

\* the lines dumpObject writes for the field x of a section (level 1)
FieldLines(val) == Split(dumpObject(Obj(<< <<K_x, val>> >>), 1, <<>>, FALSE), NL)

\* C22 (nested record arrays are indented deeper than their key), as
\* claimed: when general.x holds an array with a record, the first dashed
\* line is indented deeper than the line `x:`, and the parsed section is an
\* object whose x holds those records.
C22_NestedRecordArrays ==
    (phase = "parsed" /\ HasRecord(Get(Get(input, K_general), K_x))) =>
        /\ Search(FieldLines(Get(Get(input, K_general), K_x))[2])
              > Search(FieldLines(Get(Get(input, K_general), K_x))[1])
        /\ IsPlainObject(Get(parsed, K_general))
        /\ Get(Get(parsed, K_general), K_x) = Get(Get(input, K_general), K_x)

----------------------------------------------------------------------------
(* SpecArrays: arrays of non-object elements written by dumpValue and read *)
(* back by parseValue                                                      *)

PrimitiveElements ==
    { Null, Bool(TRUE), Bool(FALSE), Num(0), Num(7),
      Str(<<"a">>), Str(<<>>), Str(<<"a", COMMA, "b">>) }

PrimitiveArrays == {Arr(s) : s \in SeqsUpTo(PrimitiveElements, MaxArrLen) \ {<<>>}}

InitArrays ==
    /\ AppIdle /\ heap = <<>>
    /\ phase = "input"
    /\ input \in PrimitiveArrays
    /\ yaml = <<>> /\ parsed = Undefined
    /\ defaultConfig = Undefined /\ importedConfig = Undefined /\ merged = Undefined

\* dumpValue(input, 1); "raised" when the call ends in a TypeError
DumpArray ==
    /\ phase = "input"
    /\ IF DumpRaises(input)
       THEN yaml' = <<>> /\ phase' = "raised"
       ELSE yaml' = dumpValue(input, 1) /\ phase' = "dumped"
    /\ UNCHANGED <<appVars, heap, input, parsed, defaultConfig, importedConfig, merged>>

\* parseValue of the token written
ReadArray ==
    /\ phase = "dumped"
    /\ parsed' = parseValue(yaml)
    /\ phase' = "parsed"
    /\ UNCHANGED <<appVars, heap, input, yaml, defaultConfig, importedConfig, merged>>

NextArrays == DumpArray \/ ReadArray

SpecArrays == InitArrays /\ [][NextArrays]_vars

\* C23 (arrays of non-object elements are dumped on one line), as claimed:
\* for a non-empty array of nulls, booleans, numbers and strings dumpValue
\* returns, and what it returns is one line of the form `[...]`.
C23_PrimitiveArrayOneLine ==
    phase # "input" =>
        /\ phase # "raised"
        /\ StartsWith(yaml, <<LBRACK>>)
        /\ EndsWith(yaml, <<RBRACK>>)
        /\ ~Includes(yaml, <<NL>>)


\* C24 (inline arrays split only on top-level commas), as claimed: the token
\* `["s1", "s2"]` written for an array of strings decodes to those strings,
\* one element per quoted item, also when a string holds a comma.
C24_TopLevelCommas ==
    (phase = "parsed" /\ \A n \in 1..Len(input.v) : input.v[n].t = "string")
    => parsed = input


\* what each literal token is claimed to decode to
LiteralValue(text) ==
    CASE text = <<"t", "r", "u", "e">> -> Bool(TRUE)
      [] text = <<"f", "a", "l", "s", "e">> -> Bool(FALSE)
      [] text = <<"n", "u", "l", "l">> -> Null
      [] text = <<LBRACK, RBRACK>> -> Arr(<<>>)
      [] text = <<"{", "}">> -> EmptyObj
      [] OTHER -> Str(text)

LiteralTokens ==
    { <<"t", "r", "u", "e">>, <<"f", "a", "l", "s", "e">>, <<"n", "u", "l", "l">>,
      <<LBRACK, RBRACK>>, <<"{", "}">>, <<"T", "r", "u", "e">>, <<"N", "U", "L", "L">> }

\* C25 (literal tokens), as claimed: on a line `k: token` the tokens true,
\* false, null, [] and {} decode to the boolean true, the boolean false,
\* null, an empty array and an empty object, and True and NULL to strings.
C25_LiteralTokens ==
    (/\ phase = "dumpedParsed"
     /\ input.v \in LiteralTokens
     /\ yaml = K_k \o <<COLON, SP>> \o input.v \o <<NL>>)
    => Get(parsed, K_k) = LiteralValue(input.v)

----------------------------------------------------------------------------
(* The auto-save effect (Spec)                                             *)

\* the steps still owed once changes stop: the effect's re-run counts 3, a
\* pending timer 2, each batch of writes under way 1
FlushRank ==
    (IF stale THEN 3 ELSE 0) + (IF timer # Undefined THEN 2 ELSE 0) + Len(inflight)

\* every step that is not a change of state lowers FlushRank
FlushProgress == (RunEffect \/ AutoSave \/ StorageWrite) => FlushRank' < FlushRank

\* while FlushRank is positive some such step can be taken
FlushEnabled ==
    FlushRank > 0 => (stale \/ inflight # <<>> \/ (timer # Undefined /\ Len(inflight) < MaxInflight))

C27_NoSaveBeforeLoad ==
    /\ [](isLoading => (timer = Undefined /\ inflight = <<>>))
    /\ [][isLoading => storage' = storage]_vars

\* C27 witness: the effect has run during loading and scheduled nothing,
\* over a store that holds a configuration other than the defaults
C27_Witness ==
    /\ isLoading
    /\ ~stale
    /\ timer = Undefined /\ inflight = <<>>
    /\ storage.ankiConfig # DEFAULT_ANKI_CONFIG


\* the section is absent or null in the imported document, and the step left
\* the application default in state and in the write issued
SectionReset(key, default, after, written) ==
    IsNullish(Get(parsed', key)) => (after = default /\ written = default)

\* C28 (an omitted section is reset): an import whose document lacks (or
\* holds null for) general, interaction, pageWidget or anki leaves that
\* section's default in state and in the write, whatever was there before;
\* one that lacks styles leaves DEFAULT_STYLES.
C28_OmittedSectionReset ==
    [][ImportStep =>
          /\ SectionReset(K_general, DEFAULT_AUTO_TRANSLATE, autoTranslate',
                          inflight'[Len(inflight')].autoTranslateConfig)
          /\ SectionReset(K_interaction, DEFAULT_WORD_INTERACTION, interactionConfig',
                          inflight'[Len(inflight')].interactionConfig)
          /\ SectionReset(K_pageWidget, DEFAULT_PAGE_WIDGET, pageWidgetConfig',
                          inflight'[Len(inflight')].pageWidgetConfig)
          /\ SectionReset(K_anki, DEFAULT_ANKI_CONFIG, ankiConfig',
                          inflight'[Len(inflight')].ankiConfig)
          /\ SectionReset(K_styles, DEFAULT_STYLES, styles',
                          inflight'[Len(inflight')].styles)]_vars

\* C28 witness: an import without interaction, anki or styles, and with general
\* and pageWidget null, has put the defaults in state, while the timer set
\* before it still holds other values for the four fixed-schema sections
C28_Witness ==
    /\ phase = "imported"
    /\ Get(parsed, K_general) = Null /\ Get(parsed, K_pageWidget) = Null
    /\ autoTranslate = DEFAULT_AUTO_TRANSLATE
    /\ interactionConfig = DEFAULT_WORD_INTERACTION
    /\ pageWidgetConfig = DEFAULT_PAGE_WIDGET
    /\ ankiConfig = DEFAULT_ANKI_CONFIG
    /\ styles = DEFAULT_STYLES
    /\ timer # Undefined
    /\ timer.autoTranslateConfig # DEFAULT_AUTO_TRANSLATE
    /\ timer.interactionConfig # DEFAULT_WORD_INTERACTION
    /\ timer.pageWidgetConfig # DEFAULT_PAGE_WIDGET
    /\ timer.ankiConfig # DEFAULT_ANKI_CONFIG

----------------------------------------------------------------------------
(* A block is a list or a map (SpecParse)                                   *)

\* the lines of `lines` the loop of parseLines(lines, c) looks at: those
\* before the first line indented less than c
BlockLast(lines, c) ==
    LET low == {i \in 1..Len(lines) : Search(lines[i]) < c}
    IN  IF low = {} THEN Len(lines)
        ELSE (CHOOSE i \in low : \A j \in low : i <= j) - 1

\* the lines at the block's own indentation
OwnLines(lines, c) == {i \in 1..BlockLast(lines, c) : Search(lines[i]) = c}

IsDashed(line) == StartsWith(Trim(line), <<DASH>>)
DashValue(line) == Trim(Tail(Trim(line)))
IsPair(line) == ~IsDashed(line) /\ IndexOf(Trim(line), COLON) # -1
PairKey(line) == CleanKey(SubSeq(Trim(line), 1, IndexOf(Trim(line), COLON)))

\* the dashed lines of the block that carry an item, in document order
DashedItems(lines, c) ==
    LET S == {i \in OwnLines(lines, c) : IsDashed(lines[i]) /\ DashValue(lines[i]) # <<>>}
    IN  [k \in 1..Cardinality(S) |->
            CHOOSE i \in S : Cardinality({j \in S : j < i}) = k - 1]

\* the item a dashed line carries: a record opened by `- key: value`, or a scalar
ItemAt(lines, i, c) ==
    IF Includes(DashValue(lines[i]), <<COLON, SP>>)
    THEN FoldInlineItem(lines, i, BlockEnd(lines, i + 1, c), c, DashValue(lines[i]))
    ELSE parseValue(DashValue(lines[i]))

\* the value a `key: value` or `key:` line gives its key
PairValue(lines, i, c) ==
    LET content == Trim(lines[i])
        valStr == Trim(SubSeq(content, IndexOf(content, COLON) + 2, Len(content)))
    IN  IF valStr # <<>> THEN parseValue(valStr)
        ELSE NestedBlock(SubSeq(lines, i + 1, BlockEnd(lines, i + 1, c) - 1))

\* r is what the claim says of the block `lines` at indentation c
BlockLaw(lines, c, r) ==
    LET own == OwnLines(lines, c)
        items == DashedItems(lines, c)
        pairs == {i \in own : IsPair(lines[i])}
    IN  IF \E i \in own : IsDashed(lines[i])
        THEN /\ IsArray(r)
             /\ Len(r.v) = Len(items)
             /\ \A k \in 1..Len(items) :
                   IF k <= Len(r.v) THEN r.v[k] = ItemAt(lines, items[k], c) ELSE FALSE
        ELSE /\ IsPlainObject(r)
             /\ {r.v[n][1] : n \in 1..Len(r.v)} = {PairKey(lines[i]) : i \in pairs}
             /\ \A i \in pairs :
                   (\A j \in pairs : j > i => PairKey(lines[j]) # PairKey(lines[i]))
                   => Get(r, PairKey(lines[i])) = PairValue(lines, i, c)

\* the indentations a block of the documents typed can have
BlockIndents == 0..4

\* C29 (a block is a list or a map): for the document parsed and for every
\* run of its lines taken as a block at any indentation, if a dashed line
\* stands at the block's indentation the result is an array of exactly the
\* dashed lines' items in document order (no key: value pair of that
\* indentation in it), and otherwise an object whose keys are those of the
\* key lines, each holding the value of its last occurrence.
C29_ListOrMap ==
    phase = "parsed" =>
        LET lines == PreprocessLines(yaml) IN
        /\ BlockLaw(lines, 0, parsed)
        /\ \A a \in 1..Len(lines), b \in 1..Len(lines), c \in BlockIndents :
              a <= b => BlockLaw(SubSeq(lines, a, b), c, parseLines(SubSeq(lines, a, b), c).result)

\* C29 witness: `k: "s"`, `- 7` and `- a: 1` at one indentation gave the two
\* items and dropped the pair
C29_Witness ==
    /\ phase = "parsed"
    /\ input = << [level |-> 0, body |-> "pair"], [level |-> 0, body |-> "scalar"],
                  [level |-> 0, body |-> "item"] >>
    /\ parsed = Arr(<< Num(7), Obj(<< <<K_a, Num(1)>> >>) >>)

\* the same key on two lines of one block with different values: the first
\* with a nested block, the second with none
RepeatedKey ==
    /\ phase = "parsed"
    /\ input = << [level |-> 0, body |-> "key"], [level |-> 1, body |-> "pair"],
                  [level |-> 0, body |-> "key"] >>
    /\ parsed = Obj(<< <<K_a, EmptyObj>> >>)

----------------------------------------------------------------------------
(* Reconciling twice (SpecMerge)                                            *)

\* C30 (reconcile is idempotent): reconciling the default with the result of
\* an earlier reconcile against the same default gives a value deep-equal to
\* that result, and reconciling the default with itself gives a value
\* deep-equal to the default.
C30_ReconcileIdempotent ==
    /\ phase = "mergedAgain" => DeepEqual(merged, importedConfig)
    /\ phase = "mergedSelf" => DeepEqual(merged, defaultConfig)

\* C30 witness: the first reconcile took something from the imported value
\* (its result is not the default), inside a nested object of the default,
\* and the second reconcile gave the same again
C30_Witness ==
    /\ phase = "mergedAgain"
    /\ IsPlainObject(defaultConfig)
    /\ \E f \in 1..Len(defaultConfig.v) :
          /\ IsPlainObject(defaultConfig.v[f][2])
          /\ ~DeepEqual(Get(importedConfig, defaultConfig.v[f][1]), defaultConfig.v[f][2])
    /\ DeepEqual(merged, importedConfig)

=============================================================================
